---- MODULE Spec2Model ----
(***************************************************************************)
(* A model of the stage-sequenced workflow orchestrator                     *)
(* (src/workflow_orchestrator.py), the HTTP reset endpoint (src/api.py)     *)
(* and the three tools it drives (src/tools).                               *)
(*                                                                          *)
(* Python strings the code inspects (user messages, URLs, product titles)   *)
(* are sequences of one-character strings, so that split, strip, lower,     *)
(* startswith and "in" are computed as the code computes them.  Texts the   *)
(* code only builds and passes on (prompts, narrations) are records naming  *)
(* the template and its interpolated values.                                *)
(***************************************************************************)
EXTENDS Integers, Sequences, FiniteSets, TLC

----------------------------------------------------------------------------
(* Bounds of the model *)

\* process_message calls in one behaviour
MaxCalls == 2

\* external outcomes, within one process_message call, that differ from the
\* nominal one (a failing service, an omitted field, a raised fault)
MaxAnomalies == 1

\* calls made on the tool registry in one behaviour
MaxRegistryCalls == 2

\* Calls made on the category tool itself in one behaviour
MaxMatchCalls == 2

----------------------------------------------------------------------------
(* Python str operations *)

UpperChars == <<"A","B","C","D","E","F","G","H","I","J","K","L","M",
                "N","O","P","Q","R","S","T","U","V","W","X","Y","Z">>

LowerChars == <<"a","b","c","d","e","f","g","h","i","j","k","l","m",
                "n","o","p","q","r","s","t","u","v","w","x","y","z">>

\* the characters of the model in code-point order (str comparison)
CodePoints == <<" ", ".", "/", ":">> \o UpperChars \o LowerChars

ord(ch) == CHOOSE i \in 1..Len(CodePoints) : CodePoints[i] = ch

isspace(ch) == ch = " "

lower_char(ch) ==
    IF \E i \in 1..Len(UpperChars) : UpperChars[i] = ch
    THEN LowerChars[CHOOSE i \in 1..Len(UpperChars) : UpperChars[i] = ch]
    ELSE ch

\* str.lower()
lower(s) == [i \in 1..Len(s) |-> lower_char(s[i])]

\* str.startswith(prefix)
startswith(s, prefix) ==
    /\ Len(prefix) <= Len(s)
    /\ SubSeq(s, 1, Len(prefix)) = prefix

\* sub in s
contains(s, sub) ==
    \E i \in 0..(Len(s) - Len(sub)) : SubSeq(s, i + 1, i + Len(sub)) = sub

\* str.strip()
strip(s) ==
    LET keep == {i \in 1..Len(s) : ~isspace(s[i])}
    IN  IF keep = {} THEN <<>>
        ELSE SubSeq(s, CHOOSE i \in keep : \A j \in keep : i <= j,
                       CHOOSE i \in keep : \A j \in keep : j <= i)

RECURSIVE split_at(_, _, _)
\* the words of s[i..], cur being the word read so far
split_at(s, i, cur) ==
    IF i > Len(s)
    THEN IF cur = <<>> THEN <<>> ELSE <<cur>>
    ELSE IF isspace(s[i])
         THEN (IF cur = <<>> THEN <<>> ELSE <<cur>>) \o split_at(s, i + 1, <<>>)
         ELSE split_at(s, i + 1, Append(cur, s[i]))

\* str.split(): the maximal runs of non-whitespace
split(s) == split_at(s, 1, <<>>)

RECURSIVE split_sep_at(_, _, _, _)
split_sep_at(s, sep, i, cur) ==
    IF i > Len(s) THEN <<cur>>
    ELSE IF s[i] = sep
         THEN <<cur>> \o split_sep_at(s, sep, i + 1, <<>>)
         ELSE split_sep_at(s, sep, i + 1, Append(cur, s[i]))

\* str.split(sep) for a one-character separator: empty pieces are kept
split_sep(s, sep) == split_sep_at(s, sep, 1, <<>>)

\* a < b in Python's str order
RECURSIVE str_less(_, _)
str_less(a, b) ==
    IF b = <<>> THEN FALSE
    ELSE IF a = <<>> THEN TRUE
    ELSE IF a[1] = b[1] THEN str_less(Tail(a), Tail(b))
    ELSE ord(a[1]) < ord(b[1])

\* " ".join(words)
RECURSIVE join(_)
join(words) ==
    IF words = <<>> THEN <<>>
    ELSE IF Len(words) = 1 THEN words[1]
    ELSE words[1] \o <<" ">> \o join(Tail(words))

----------------------------------------------------------------------------
(* Python dict and list helpers *)

\* {}
EmptyDict == <<>>

\* bool(d) of a dict or a list
truthy(d) == DOMAIN d # {}

\* d.get(key, default)
get(d, key, default) == IF key \in DOMAIN d THEN d[key] ELSE default

\* d[key] = value
put(d, key, value) ==
    [k \in (DOMAIN d) \cup {key} |-> IF k = key THEN value ELSE d[k]]

\* the slice that keeps the whole list
slice_to_the_end(xs, n) == xs

\* xs[:n]
take(xs, n) == SubSeq(xs, 1, IF Len(xs) < n THEN Len(xs) ELSE n)

\* xs[-n:]
last(xs, n) == SubSeq(xs, (IF Len(xs) < n THEN 0 ELSE Len(xs) - n) + 1, Len(xs))

----------------------------------------------------------------------------
(* Values *)

\* Python's None
None == [py_none |-> TRUE]

\* an f-string: the literal template and the values interpolated into it
Text(template, args) == [text |-> template, args |-> args]

\* src/tools/base.py: ToolResult.__init__
ToolResult(success, result, error, tool_name) ==
    [success |-> success, result |-> result, error |-> error,
     tool_name |-> tool_name]

W_http == <<"h","t","t","p">>
W_http_scheme == <<"h","t","t","p",":","/","/">>
W_https_scheme == <<"h","t","t","p","s",":","/","/">>
W_cancel == <<"c","a","n","c","e","l">>
W_stop == <<"s","t","o","p">>
W_online == <<"o","n","l","i","n","e">>
W_quality == <<"q","u","a","l","i","t","y">>
W_popular == <<"p","o","p","u","l","a","r">>
Unknown_Product == <<"U","n","k","n","o","w","n"," ","P","r","o","d","u","c","t">>

----------------------------------------------------------------------------
(* src/tools/firecrawler_tool.py *)

example_domains ==
    { <<"e","x","a","m","p","l","e",".","c","o","m">>,
      <<"e","x","a","m","p","l","e","h","e","a","d","p","h","o","n","e","s",".","c","o","m">>,
      <<"d","o","m","a","i","n",".","c","o","m">>,
      <<"e","x","a","m","p","l","e",".","o","r","g">>,
      <<"p","l","a","c","e","h","o","l","d","e","r">>,
      <<"s","a","m","p","l","e">>,
      <<"t","e","s","t",".","c","o","m">> }

\* What the scrape service can do with one request: raise, or return a
\* scrape result.  The page content is given by what the regular expressions
\* of _parse_firecrawl_result find in it.
ScrapeFull ==
    [title |-> <<"G","o"," ","P","r","o">>,
     content |-> [prices |-> <<"$49.99">>,
                  bullets |-> <<"Waterproof", "4K video">>,
                  paragraphs |-> <<"A rugged action camera.">>]]

\* a page with neither title nor content
ScrapeBare == [images |-> <<"i1.png">>]

ScrapeOutcomes ==
    { [raises |-> FALSE, value |-> ScrapeFull],
      [raises |-> FALSE, value |-> ScrapeBare],
      [raises |-> FALSE, value |-> EmptyDict],
      [raises |-> TRUE] }

_parse_firecrawl_result(scrape_result) ==
    LET has_content == "content" \in DOMAIN scrape_result
        content == scrape_result["content"]
    IN  [title |-> IF "title" \in DOMAIN scrape_result
                   THEN scrape_result["title"] ELSE <<>>,
         price |-> IF has_content /\ content.prices # <<>>
                   THEN content.prices[1] ELSE "",
         description |-> IF has_content /\ content.paragraphs # <<>>
                         THEN content.paragraphs[1] ELSE "",
         features |-> IF has_content THEN take(content.bullets, 10) ELSE <<>>,
         specifications |-> EmptyDict,
         images |-> IF "images" \in DOMAIN scrape_result
                    THEN take(scrape_result["images"], 5) ELSE <<>>]

\* FirecrawlerTool.execute without the check of lines 95-106
FirecrawlerTool_execute_any_domain(parameters, scrape) ==
    LET url == get(parameters, "url", <<>>)
    IN  IF ~(startswith(url, W_http_scheme) \/ startswith(url, W_https_scheme))
        THEN ToolResult(FALSE, None,
                 Text("Invalid URL format. Please provide a URL starting with http:// or https://.", <<>>),
                 "firecrawler")
        ELSE IF scrape.raises
        THEN ToolResult(FALSE, None,
                 Text("Error executing firecrawler: {e}", <<"scrape_url raised">>),
                 "firecrawler")
        ELSE IF ~truthy(scrape.value)
        THEN ToolResult(FALSE, None,
                 Text("Empty result returned from Firecrawl API", <<>>),
                 "firecrawler")
        ELSE ToolResult(TRUE, _parse_firecrawl_result(scrape.value), None,
                 "firecrawler")

\* lines 108-158 of execute: the request to the scrape service and what
\* execute returns after it; scrape is what the service does when called
scraped_result(scrape) ==
    IF scrape.raises
    THEN ToolResult(FALSE, None,
             Text("Error executing firecrawler: {e}", <<"scrape_url raised">>),
             "firecrawler")
    ELSE IF ~truthy(scrape.value)
    THEN ToolResult(FALSE, None,
             Text("Empty result returned from Firecrawl API", <<>>),
             "firecrawler")
    ELSE ToolResult(TRUE, _parse_firecrawl_result(scrape.value), None,
             "firecrawler")

\* execute looking for an example domain before it looks at the scheme
FirecrawlerTool_run_domains_first(parameters, scrape) ==
    IF \E domain \in example_domains :
           contains(lower(get(parameters, "url", <<>>)), domain)
    THEN [result |->
              ToolResult(FALSE, None,
                  Text("The URL appears to be a fictional or example domain. Please provide a real product URL.", <<>>),
                  "firecrawler"),
          scraped |-> <<>>]
    ELSE IF ~(\/ startswith(get(parameters, "url", <<>>), W_http_scheme)
              \/ startswith(get(parameters, "url", <<>>), W_https_scheme))
    THEN [result |->
              ToolResult(FALSE, None,
                  Text("Invalid URL format. Please provide a URL starting with http:// or https://.", <<>>),
                  "firecrawler"),
          scraped |-> <<>>]
    ELSE [result |-> scraped_result(scrape),
          scraped |-> << get(parameters, "url", <<>>) >>]

\* FirecrawlerTool.execute of an available tool: the ToolResult it returns
\* and the urls it hands to the scrape service
FirecrawlerTool_run(parameters, scrape) ==
    IF ~(\/ startswith(get(parameters, "url", <<>>), W_http_scheme)
         \/ startswith(get(parameters, "url", <<>>), W_https_scheme))
    THEN [result |->
              ToolResult(FALSE, None,
                  Text("Invalid URL format. Please provide a URL starting with http:// or https://.", <<>>),
                  "firecrawler"),
          scraped |-> <<>>]
    ELSE IF \E domain \in example_domains :
                contains(lower(get(parameters, "url", <<>>)), domain)
    THEN [result |->
              ToolResult(FALSE, None,
                  Text("The URL appears to be a fictional or example domain. Please provide a real product URL.", <<>>),
                  "firecrawler"),
          scraped |-> <<>>]
    ELSE [result |-> scraped_result(scrape),
          scraped |-> << get(parameters, "url", <<>>) >>]

\* FirecrawlerTool.execute; scrape is what the scrape service does when called
FirecrawlerTool_execute(parameters, scrape) ==
    FirecrawlerTool_run(parameters, scrape).result

\* whether FirecrawlerTool.execute reaches firecrawl_app.scrape_url
FirecrawlerTool_calls_service(parameters) ==
    FirecrawlerTool_run(parameters, [raises |-> TRUE]).scraped # <<>>

----------------------------------------------------------------------------
(* src/tools/serp_analysis_tool.py *)

marketplaces ==
    { <<"a","m","a","z","o","n">>, <<"e","b","a","y">>,
      <<"w","a","l","m","a","r","t">>, <<"b","e","s","t","b","u","y">>,
      <<"t","a","r","g","e","t">> }

stopwords ==
    { <<"t","h","e">>, <<"a">>, <<"a","n">>, <<"a","n","d">>, <<"o","r">>,
      <<"b","u","t">>, <<"i","s">>, <<"a","r","e">>, <<"o","f">>,
      <<"f","o","r">>, <<"i","n">>, <<"t","o">>, <<"w","i","t","h">> }

\* str.title() of a lower-case word
title_case(w) ==
    IF w = <<>> THEN <<>>
    ELSE <<IF \E i \in 1..Len(LowerChars) : LowerChars[i] = w[1]
           THEN UpperChars[CHOOSE i \in 1..Len(LowerChars) : LowerChars[i] = w[1]]
           ELSE w[1]>> \o Tail(w)

\* An organic result, as the regular expressions of the extraction read it:
\* the domain of its link (None when the link has none) and the lower-cased
\* words of its title and snippet (digits-only words left out).
OrganicRich ==
    << [domain |-> <<"a","c","m","e",".","i","o">>,
        words |-> << <<"a","u","d","i","o">>, <<"t","h","e">>,
                     <<"t","i","n","y">>, <<"a","u","d","i","o">> >>],
       [domain |-> <<"a","m","a","z","o","n",".","c","o","m">>,
        words |-> << <<"p","r","o">> >>] >>

\* results from a marketplace only, with no word longer than three characters
OrganicPoor ==
    << [domain |-> <<"a","m","a","z","o","n",".","c","o","m">>,
        words |-> << <<"p","r","o">> >>] >>

SearchOutcomes ==
    { [raises |-> FALSE, value |-> OrganicRich],
      [raises |-> FALSE, value |-> OrganicPoor],
      [raises |-> FALSE, value |-> <<>>],
      [raises |-> TRUE] }

RECURSIVE competitors_of(_, _)
\* the loop over organic_results, for the competitors list
competitors_of(organic_results, competitors) ==
    IF organic_results = <<>> THEN competitors
    ELSE LET company_name == split_sep(Head(organic_results).domain, ".")[1]
             seen == {lower(competitors[i]) : i \in 1..Len(competitors)}
         IN  competitors_of(Tail(organic_results),
                 IF company_name \notin marketplaces /\ company_name \notin seen
                 THEN Append(competitors, title_case(company_name))
                 ELSE competitors)

RECURSIVE keywords_of(_, _, _)
\* the loop over the words of the results, for related_keywords
keywords_of(words, query, related_keywords) ==
    IF words = <<>> THEN related_keywords
    ELSE LET word == Head(words)
             seen == {related_keywords[i] : i \in 1..Len(related_keywords)}
         IN  keywords_of(Tail(words), query,
                 IF /\ Len(word) > 3
                    /\ word \notin stopwords
                    /\ ~contains(lower(query), word)
                    /\ word \notin seen
                 THEN Append(related_keywords, word)
                 ELSE related_keywords)

RECURSIVE all_words(_)
all_words(organic_results) ==
    IF organic_results = <<>> THEN <<>>
    ELSE Head(organic_results).words \o all_words(Tail(organic_results))

\* sorted(competitors, key=frequency of x.lower() among the domains, reverse=True):
\* a stable sort, descending by key
sorted_competitors(competitors, organic_results) ==
    LET n == Len(competitors)
        freq(x) == Cardinality({i \in 1..Len(organic_results) :
                                   organic_results[i].domain = lower(x)})
        rank(i) == Cardinality({j \in 1..n :
                       \/ freq(competitors[j]) > freq(competitors[i])
                       \/ freq(competitors[j]) = freq(competitors[i]) /\ j < i}) + 1
    IN  [p \in 1..n |-> competitors[CHOOSE i \in 1..n : rank(i) = p]]

_extract_market_data_from_serpapi(organic_results, query) ==
    [competitors |-> take(sorted_competitors(
                              competitors_of(organic_results, <<>>),
                              organic_results), 5),
     keywords |-> take(keywords_of(all_words(organic_results), query, <<>>), 10),
     search_volume |-> "medium",
     query |-> query]

\* SerpAnalysisTool.execute; search is what the search service does when called
SerpAnalysisTool_execute(parameters, search) ==
    LET query == get(parameters, "query", <<>>)
    IN  IF query = <<>>
        THEN ToolResult(FALSE, None,
                 Text("Please provide a valid search query.", <<>>),
                 "serp_analysis")
        ELSE IF search.raises
        THEN ToolResult(FALSE, None,
                 Text("Error executing serp_analysis: {e}", <<"search raised">>),
                 "serp_analysis")
        ELSE IF search.value = <<>>
        THEN ToolResult(FALSE, None,
                 Text("No organic results found for query: {query}", <<query>>),
                 "serp_analysis")
        ELSE ToolResult(TRUE,
                 _extract_market_data_from_serpapi(search.value, query), None,
                 "serp_analysis")

----------------------------------------------------------------------------
(* src/tools/category_tree_tool.py: the category trees and the exploration  *)
(* modes                                                                    *)

\* Contents of marketing_categories.json the tool may have loaded.
TreeSmall ==
    [categories |-> <<
        [name |-> <<"T","e","c","h">>, description |-> "Technology products",
         subcategories |-> <<
            [name |-> <<"P","h","o","n","e","s">>, description |-> "Mobile phones",
             values |-> <<"Android", "iOS">>],
            [name |-> <<"A","u","d","i","o">>,
             subcategories |-> << [name |-> <<"H","i","F","i">>] >>] >>],
        [name |-> <<"A","u","t","o">>, description |-> "Vehicles"],
        [name |-> <<"H","o","m","e">>, subcategories |-> <<>>] >>]

\* a file with an empty category list
TreeEmpty == [categories |-> <<>>]

\* a file with an entry that has no name
TreeBroken ==
    [categories |-> << [description |-> "an entry without a name"],
                       [name |-> <<"H","o","m","e">>] >>]

Trees == {TreeSmall, TreeEmpty, TreeBroken}

has_subcategories(node) ==
    /\ "subcategories" \in DOMAIN node
    /\ Len(node["subcategories"]) > 0

\* list.sort(key=lambda x: x["name"]): stable, ascending
sort_by_name(xs) ==
    LET n == Len(xs)
        rank(i) == Cardinality({j \in 1..n :
                       \/ str_less(xs[j].name, xs[i].name)
                       \/ xs[j].name = xs[i].name /\ j < i}) + 1
    IN  [p \in 1..n |-> xs[CHOOSE i \in 1..n : rank(i) = p]]

\* a node without a "name" key: node["name"] raises KeyError
unnamed(nodes) == \E i \in 1..Len(nodes) : "name" \notin DOMAIN nodes[i]

_get_all_top_level_categories(tree) ==
    LET cats == get(tree, "categories", <<>>)
    IN  sort_by_name([i \in 1..Len(cats) |->
            [name |-> cats[i]["name"],
             description |-> get(cats[i], "description", ""),
             has_subcategories |-> has_subcategories(cats[i])]])

\* the index of the first category named category_name, 0 when there is none
first_named(cats, category_name) ==
    IF \E i \in 1..Len(cats) : cats[i]["name"] = category_name
    THEN CHOOSE i \in 1..Len(cats) :
            /\ cats[i]["name"] = category_name
            /\ \A j \in 1..(i - 1) : cats[j]["name"] # category_name
    ELSE 0

\* _get_subcategories_for_category without the sort by name
_get_subcategories_for_category_in_tree_order(tree, category_name) ==
    LET cats == get(tree, "categories", <<>>)
        at == first_named(cats, category_name)
        subs == IF at = 0 THEN <<>> ELSE get(cats[at], "subcategories", <<>>)
    IN  [i \in 1..Len(subs) |->
            [name |-> subs[i]["name"],
             description |-> get(subs[i], "description", ""),
             has_subcategories |-> has_subcategories(subs[i]),
             values |-> get(subs[i], "values", <<>>)]]

_get_subcategories_for_category(tree, category_name) ==
    LET cats == get(tree, "categories", <<>>)
        at == first_named(cats, category_name)
        subs == IF at = 0 THEN <<>> ELSE get(cats[at], "subcategories", <<>>)
    IN  sort_by_name([i \in 1..Len(subs) |->
            [name |-> subs[i]["name"],
             description |-> get(subs[i], "description", ""),
             has_subcategories |-> has_subcategories(subs[i]),
             values |-> get(subs[i], "values", <<>>)]])

\* whether the loop of _get_subcategories_for_category raises KeyError: an
\* unnamed category is met before the named one, or the named one has an
\* unnamed subcategory
subcategories_raise(tree, category_name) ==
    LET cats == get(tree, "categories", <<>>)
        upto == IF \E i \in 1..Len(cats) :
                      "name" \in DOMAIN cats[i] /\ cats[i]["name"] = category_name
                THEN CHOOSE i \in 1..Len(cats) :
                        /\ "name" \in DOMAIN cats[i]
                        /\ cats[i]["name"] = category_name
                        /\ \A j \in 1..(i - 1) :
                              "name" \in DOMAIN cats[j] => cats[j]["name"] # category_name
                ELSE Len(cats) + 1
    IN  \/ \E j \in 1..(upto - 1) : j <= Len(cats) /\ "name" \notin DOMAIN cats[j]
        \/ upto <= Len(cats) /\ unnamed(get(cats[upto], "subcategories", <<>>))

----------------------------------------------------------------------------
(* src/tools/category_tree_tool.py: the match mode.  Names, descriptions   *)
(* and values of the trees it is applied to are sequences of characters.    *)

\* xs[:n]
slice_to(xs, n) ==
    IF n >= 0 THEN take(xs, n)
    ELSE SubSeq(xs, 1, IF Len(xs) + n < 0 THEN 0 ELSE Len(xs) + n)

\* list.sort(key=lambda x: x["category"]): stable, ascending
sort_by_category(xs) ==
    LET n == Len(xs)
        rank(i) == Cardinality({j \in 1..n :
                       \/ str_less(xs[j].category, xs[i].category)
                       \/ xs[j].category = xs[i].category /\ j < i}) + 1
    IN  [p \in 1..n |-> xs[CHOOSE i \in 1..n : rank(i) = p]]

\* the sort with ties in reverse of the original order
sort_by_score_reversing_ties(xs) ==
    LET n == Len(xs)
        rank(i) == Cardinality({j \in 1..n :
                       \/ xs[j].score > xs[i].score
                       \/ xs[j].score = xs[i].score /\ j > i}) + 1
    IN  [p \in 1..n |-> xs[CHOOSE i \in 1..n : rank(i) = p]]

\* list.sort(key=lambda x: x["score"], reverse=True): stable, descending
sort_by_score(xs) ==
    LET n == Len(xs)
        rank(i) == Cardinality({j \in 1..n :
                       \/ xs[j].score > xs[i].score
                       \/ xs[j].score = xs[i].score /\ j < i}) + 1
    IN  [p \in 1..n |-> xs[CHOOSE i \in 1..n : rank(i) = p]]

keyword_map ==
    << << <<"D","e","m","o","g","r","a","p","h","i","c","s">>,
          << <<"a","g","e">>, <<"g","e","n","d","e","r">>, <<"e","d","u","c","a","t","i","o","n">>, <<"m","a","r","i","t","a","l"," ","s","t","a","t","u","s">>, <<"e","t","h","n","i","c","i","t","y">> >> >>,
       << <<"F","i","n","a","n","c","i","a","l">>,
          << <<"m","o","n","e","y">>, <<"i","n","c","o","m","e">>, <<"w","e","a","l","t","h">>, <<"f","i","n","a","n","c","e">>, <<"i","n","v","e","s","t","m","e","n","t">>, <<"b","u","d","g","e","t">> >> >>,
       << <<"H","o","m","e">>,
          << <<"h","o","u","s","e">>, <<"a","p","a","r","t","m","e","n","t">>, <<"r","e","s","i","d","e","n","c","e">>, <<"p","r","o","p","e","r","t","y">>, <<"r","e","n","t">>, <<"m","o","r","t","g","a","g","e">> >> >>,
       << <<"L","i","f","e"," ","E","v","e","n","t","s">>,
          << <<"w","e","d","d","i","n","g">>, <<"m","a","r","r","i","a","g","e">>, <<"e","n","g","a","g","e","m","e","n","t">>, <<"b","i","r","t","h","d","a","y">>, <<"a","n","n","i","v","e","r","s","a","r","y">>,
             <<"g","r","a","d","u","a","t","i","o","n">> >> >>,
       << <<"I","n","t","e","r","e","s","t","s">>,
          << <<"h","o","b","b","y">>, <<"p","a","s","s","i","o","n">>, <<"a","c","t","i","v","i","t","y">>, <<"e","n","t","e","r","t","a","i","n","m","e","n","t">>, <<"l","e","i","s","u","r","e">> >> >>,
       << <<"S","h","o","p","p","i","n","g"," ","a","n","d"," ","F","a","s","h","i","o","n">>,
          << <<"c","l","o","t","h","e","s">>, <<"s","t","y","l","e">>, <<"t","r","e","n","d">>, <<"r","e","t","a","i","l">>, <<"p","u","r","c","h","a","s","e">>, <<"b","u","y">> >> >>,
       << <<"T","e","c","h","n","o","l","o","g","y">>,
          << <<"t","e","c","h">>, <<"g","a","d","g","e","t">>, <<"d","e","v","i","c","e">>, <<"d","i","g","i","t","a","l">>, <<"e","l","e","c","t","r","o","n","i","c">>, <<"c","o","m","p","u","t","e","r">> >> >>,
       << <<"B","e","h","a","v","i","o","r","s">>,
          << <<"h","a","b","i","t">>, <<"p","a","t","t","e","r","n">>, <<"r","o","u","t","i","n","e">>, <<"l","i","f","e","s","t","y","l","e">>, <<"b","e","h","a","v","i","o","r">> >> >> >>

\* keyword_map.get(category_name, [])
_get_keywords_for_category(category_name) ==
    IF \E i \in 1..Len(keyword_map) : keyword_map[i][1] = category_name
    THEN keyword_map[CHOOSE i \in 1..Len(keyword_map) :
                        keyword_map[i][1] = category_name][2]
    ELSE <<>>

\* how many entries of words occur in all_text, lower-cased
occurrences(words, all_text) ==
    Cardinality({k \in 1..Len(words) : contains(all_text, lower(words[k]))})

\* [v for v in values if v.lower() in all_text]
matched_values(values, all_text) ==
    LET occurs(v) == contains(all_text, lower(v))
    IN  SelectSeq(values, occurs)

\* a subcategory scored on the schedule of the top-level categories
subcategory_score_on_category_schedule(subcategory, all_text) ==
      (IF contains(all_text, lower(subcategory["name"])) THEN 10 ELSE 0)
    + 3 * Cardinality({k \in 1..Len(split(lower(subcategory["name"]))) :
              /\ Len(split(lower(subcategory["name"]))[k]) > 3
              /\ contains(all_text, split(lower(subcategory["name"]))[k])})
    + (IF /\ "description" \in DOMAIN subcategory
          /\ contains(all_text, lower(subcategory["description"]))
       THEN 5 ELSE 0)
    + 2 * occurrences(_get_keywords_for_category(subcategory["name"]), all_text)

\* the score _match_subcategories gives one subcategory
subcategory_score(subcategory, all_text) ==
      (IF contains(all_text, lower(subcategory["name"])) THEN 5 ELSE 0)
    + (IF /\ "description" \in DOMAIN subcategory
          /\ contains(all_text, lower(subcategory["description"]))
       THEN 3 ELSE 0)
    + 2 * occurrences(get(subcategory, "values", <<>>), all_text)

\* subcategory_data as _match_subcategories builds it
subcategory_data(subcategory, score, nested_subcategories, all_text) ==
    LET named == [name |-> subcategory["name"],
                  description |-> get(subcategory, "description", <<>>),
                  score |-> score]
        nested == IF nested_subcategories # <<>>
                  THEN put(named, "subcategories", nested_subcategories)
                  ELSE named
    IN  IF matched_values(get(subcategory, "values", <<>>), all_text) # <<>>
        THEN put(nested, "matched_values",
                 matched_values(subcategory["values"], all_text))
        ELSE nested

RECURSIVE scored_subcategories(_, _, _, _)

\* what the loop of _match_subcategories appends for one subcategory
scored_subcategory(subcategory, score, nested_subcategories, all_text) ==
    IF score > 0 \/ nested_subcategories # <<>>
    THEN << subcategory_data(subcategory, score, nested_subcategories, all_text) >>
    ELSE <<>>

_match_subcategories(category, all_text, max_subcategories) ==
    IF "subcategories" \notin DOMAIN category THEN <<>>
    ELSE slice_to(sort_by_score(
             scored_subcategories(category["subcategories"], 1, all_text,
                                  max_subcategories)),
             max_subcategories)

\* the entries the loop of _match_subcategories appends for subs[i..]
scored_subcategories(subs, i, all_text, max_subcategories) ==
    IF i > Len(subs) THEN <<>>
    ELSE scored_subcategory(subs[i], subcategory_score(subs[i], all_text),
             _match_subcategories(subs[i], all_text, max_subcategories), all_text)
         \o scored_subcategories(subs, i + 1, all_text, max_subcategories)

\* " ".join([description] + features + keywords).lower()
all_text_of(description, features, keywords) ==
    lower(join(<<description>> \o features \o keywords))

\* the score of a top-level category before the base score for general names
name_score(category, all_text) ==
      (IF contains(all_text, lower(category["name"])) THEN 10 ELSE 0)
    + 3 * Cardinality({k \in 1..Len(split(lower(category["name"]))) :
              /\ Len(split(lower(category["name"]))[k]) > 3
              /\ contains(all_text, split(lower(category["name"]))[k])})
    + (IF /\ "description" \in DOMAIN category
          /\ contains(all_text, lower(category["description"]))
       THEN 5 ELSE 0)
    + 2 * occurrences(_get_keywords_for_category(category["name"]), all_text)

is_general(cat_name) ==
    \/ contains(cat_name, <<"g","e","n","e","r","a","l">>)
    \/ contains(cat_name, <<"p","r","o","d","u","c","t">>)
    \/ contains(cat_name, <<"c","o","n","s","u","m","e","r">>)

\* the score without the base score of lines 279-282
with_base_score_never_given(cat_name, score) == score

with_base_score(cat_name, score) ==
    IF score = 0 /\ is_general(cat_name) THEN 1 ELSE score

category_score(category, all_text) ==
    with_base_score(lower(category["name"]), name_score(category, all_text))

\* the entries the scoring loop of _match_categories appends for cats[i..]
RECURSIVE scored_categories(_, _, _, _)
scored_categories(cats, i, all_text, max_subcategories) ==
    IF i > Len(cats) THEN <<>>
    ELSE (IF category_score(cats[i], all_text) > 0
          THEN << [category |-> cats[i]["name"],
                   description |-> get(cats[i], "description", <<>>),
                   score |-> category_score(cats[i], all_text),
                   subcategories |->
                       _match_subcategories(cats[i], all_text, max_subcategories)] >>
          ELSE <<>>)
         \o scored_categories(cats, i + 1, all_text, max_subcategories)

\* no category is made up when no category scored
default_categories_left_out(cats, all_text, max_subcategories) == <<>>

\* the category used when no category scored
default_categories(cats, all_text, max_subcategories) ==
    LET generic == {i \in 1..Len(cats) :
                       \/ contains(lower(cats[i]["name"]), <<"g","e","n","e","r","a","l">>)
                       \/ contains(lower(cats[i]["name"]), <<"c","o","n","s","u","m","e","r">>)}
        default_category == cats[CHOOSE i \in generic : \A j \in generic : i <= j]
    IN  IF generic # {}
        THEN << [category |-> default_category["name"],
                 description |-> get(default_category, "description",
                                     <<"G","e","n","e","r","a","l"," ","p","r","o","d","u","c","t","s"," ","c","a","t","e","g","o","r","y">>),
                 score |-> 1,
                 subcategories |-> _match_subcategories(default_category, all_text,
                                                        max_subcategories)] >>
        ELSE << [category |-> <<"G","e","n","e","r","a","l"," ","C","o","n","s","u","m","e","r"," ","P","r","o","d","u","c","t","s">>,
                 description |-> <<"P","r","o","d","u","c","t","s"," ","i","n","t","e","n","d","e","d"," ","f","o","r"," ","g","e","n","e","r","a","l"," ","c","o","n","s","u","m","e","r"," ","u","s","e">>,
                 score |-> 1,
                 subcategories |-> <<
                     [name |-> <<"O","n","l","i","n","e"," ","P","r","o","d","u","c","t","s">>,
                      description |-> <<"P","r","o","d","u","c","t","s"," ","a","v","a","i","l","a","b","l","e"," ","f","o","r"," ","p","u","r","c","h","a","s","e"," ","o","n","l","i","n","e">>,
                      score |-> 1] >>] >>

\* the branch of _match_categories for no input text
all_categories_of(cats) ==
    [i \in 1..Len(cats) |->
        [category |-> cats[i]["name"],
         description |-> get(cats[i], "description", <<>>),
         score |-> 5,
         subcategories |-> <<>>]]

no_input(description, features, keywords) ==
    strip(description) = <<>> /\ features = <<>> /\ keywords = <<>>

ranked_categories(cats, scored, all_text, max_categories, max_subcategories) ==
    slice_to(IF scored = <<>>
             THEN default_categories(cats, all_text, max_subcategories)
             ELSE sort_by_score(scored),
             max_categories)

\* _match_categories returning the categories in tree order for no input
_match_categories_unsorted(tree, description, features, keywords, max_categories, max_subcategories) ==
    IF no_input(description, features, keywords)
    THEN slice_to(all_categories_of(get(tree, "categories", <<>>)), max_categories)
    ELSE ranked_categories(get(tree, "categories", <<>>),
             scored_categories(get(tree, "categories", <<>>), 1,
                 all_text_of(description, features, keywords), max_subcategories),
             all_text_of(description, features, keywords),
             max_categories, max_subcategories)

_match_categories(tree, description, features, keywords, max_categories, max_subcategories) ==
    IF no_input(description, features, keywords)
    THEN slice_to(sort_by_category(all_categories_of(get(tree, "categories", <<>>))),
                  max_categories)
    ELSE ranked_categories(get(tree, "categories", <<>>),
             scored_categories(get(tree, "categories", <<>>), 1,
                 all_text_of(description, features, keywords), max_subcategories),
             all_text_of(description, features, keywords),
             max_categories, max_subcategories)

\* a node below which some subcategory has no "name" key
RECURSIVE unnamed_below(_)
unnamed_below(node) ==
    LET subs == get(node, "subcategories", <<>>)
    IN  \/ unnamed(subs)
        \/ \E i \in 1..Len(subs) : unnamed_below(subs[i])

\* whether _match_categories raises KeyError
match_raises(tree, description, features, keywords) ==
    LET cats == get(tree, "categories", <<>>)
    IN  \/ unnamed(cats)
        \/ /\ ~no_input(description, features, keywords)
           /\ \E i \in 1..Len(cats) :
                 /\ unnamed_below(cats[i])
                 /\ category_score(cats[i],
                        all_text_of(description, features, keywords)) > 0

\* the criteria one subcategory adds to the primary segment of its category
subcategory_criteria(category_name, subcategory) ==
    << [type |-> "interest", category |-> category_name,
        subcategory |-> subcategory["name"]] >>
    \o [k \in 1..Len(get(subcategory, "matched_values", <<>>)) |->
           [type |-> "interest", category |-> category_name,
            subcategory |-> subcategory["name"],
            value |-> subcategory["matched_values"][k]]]

RECURSIVE criteria_of(_, _, _)
criteria_of(category_name, subcategories, i) ==
    IF i > Len(subcategories) THEN <<>>
    ELSE subcategory_criteria(category_name, subcategories[i])
         \o criteria_of(category_name, subcategories, i + 1)

\* the primary segment with the criterion for its category alone
primary_segment_of_category_alone(category_name, subcategories) ==
    [name |-> Text("{category_name} Enthusiasts", <<category_name>>),
     description |->
         Text("People interested in {category_name.lower()} products and services",
              <<lower(category_name)>>),
     targeting_criteria |->
         << [type |-> "interest", category |-> category_name] >>]

primary_segment(category_name, subcategories) ==
    [name |-> Text("{category_name} Enthusiasts", <<category_name>>),
     description |->
         Text("People interested in {category_name.lower()} products and services",
              <<lower(category_name)>>),
     targeting_criteria |->
         << [type |-> "interest", category |-> category_name] >>
         \o criteria_of(category_name, subcategories, 1)]

seekers_segment(category_name, subcategory_name) ==
    [name |-> Text("{subcategory_name} Seekers", <<subcategory_name>>),
     description |->
         Text("Consumers specifically looking for {subcategory_name.lower()} in the {category_name.lower()} category",
              <<lower(subcategory_name), lower(category_name)>>),
     targeting_criteria |->
         << [type |-> "interest", category |-> category_name,
             subcategory |-> subcategory_name],
            [type |-> "behavior", category |-> "Shopping Behavior",
             value |-> "Product Research"] >>]

\* the specialized segments of the subcategories scoring above 3
RECURSIVE seekers_of(_, _, _)
seekers_of(category_name, subcategories, i) ==
    IF i > Len(subcategories) THEN <<>>
    ELSE (IF get(subcategories[i], "score", 0) > 3
          THEN << seekers_segment(category_name, subcategories[i]["name"]) >>
          ELSE <<>>)
         \o seekers_of(category_name, subcategories, i + 1)

\* the additional segments for technology, fashion and home categories
additional_segments(category_name) ==
    (IF \/ contains(category_name, <<"T","e","c","h","n","o","l","o","g","y">>)
        \/ contains(category_name, <<"E","l","e","c","t","r","o","n","i","c","s">>)
     THEN << [name |-> "Tech Early Adopters",
              description |-> "People who seek out the latest technology products and innovations",
              targeting_criteria |->
                  << [type |-> "interest", category |-> category_name],
                     [type |-> "behavior", category |-> "Technology",
                      value |-> "Early Adopter"] >>] >>
     ELSE <<>>)
    \o
    (IF \/ contains(category_name, <<"F","a","s","h","i","o","n">>)
        \/ contains(category_name, <<"C","l","o","t","h","i","n","g">>)
        \/ contains(category_name, <<"A","p","p","a","r","e","l">>)
     THEN << [name |-> "Fashion-Forward Consumers",
              description |-> "Style-conscious consumers who follow trends and fashion innovations",
              targeting_criteria |->
                  << [type |-> "interest", category |-> category_name],
                     [type |-> "demographic", category |-> "Shopping Behavior",
                      value |-> "Trend-Driven"] >>] >>
     ELSE <<>>)
    \o
    (IF \/ contains(category_name, <<"H","o","m","e">>)
        \/ contains(category_name, <<"F","u","r","n","i","t","u","r","e">>)
        \/ contains(category_name, <<"D","e","c","o","r">>)
     THEN << [name |-> "Home Improvement Enthusiasts",
              description |-> "People actively enhancing or renovating their living spaces",
              targeting_criteria |->
                  << [type |-> "interest", category |-> category_name],
                     [type |-> "life_event", category |-> "Home",
                      value |-> "Moving/Renovating"] >>] >>
     ELSE <<>>)

\* the segments the loop of _generate_audience_segments appends for one category
category_segments(category_match) ==
    seekers_of(category_match["category"],
               get(category_match, "subcategories", <<>>), 1)
    \o << primary_segment(category_match["category"],
                          get(category_match, "subcategories", <<>>)) >>
    \o additional_segments(category_match["category"])

RECURSIVE specific_segments(_, _)
specific_segments(matched_categories, i) ==
    IF i > Len(matched_categories) THEN <<>>
    ELSE category_segments(matched_categories[i])
         \o specific_segments(matched_categories, i + 1)

general_segments ==
    << [name |-> "Value-Conscious Shoppers",
        description |-> "Price-sensitive consumers who compare options before purchasing",
        targeting_criteria |->
            << [type |-> "behavior", category |-> "Shopping Behavior",
                value |-> "Price Comparison"],
               [type |-> "behavior", category |-> "Shopping Behavior",
                value |-> "Coupon User"] >>],
       [name |-> "Convenience Shoppers",
        description |-> "Consumers who prioritize ease of purchase and quick delivery",
        targeting_criteria |->
            << [type |-> "behavior", category |-> "Shopping Behavior",
                value |-> "Online Shopper"],
               [type |-> "behavior", category |-> "Shopping Behavior",
                value |-> "Fast Shipping"] >>],
       [name |-> "Quality-Focused Consumers",
        description |-> "Shoppers who prioritize product quality and durability over price",
        targeting_criteria |->
            << [type |-> "behavior", category |-> "Shopping Behavior",
                value |-> "Quality-Driven"],
               [type |-> "demographic", category |-> "Income",
                value |-> "Above Average"] >>] >>

\* _generate_audience_segments filling up to three segments rather than
\* appending all three general ones
with_general_segments_up_to_three(audience_segments) ==
    IF Len(audience_segments) < 3
    THEN audience_segments \o take(general_segments, 3 - Len(audience_segments))
    ELSE audience_segments

with_general_segments(audience_segments) ==
    IF Len(audience_segments) < 3
    THEN audience_segments \o general_segments
    ELSE audience_segments

_generate_audience_segments(matched_categories) ==
    with_general_segments(specific_segments(matched_categories, 1))

\* the result of CategoryTreeTool.execute in match mode
match_result(matched_categories) ==
    [matched_categories |-> matched_categories,
     audience_segments |-> _generate_audience_segments(matched_categories),
     mode |-> "match"]

\* lines 116 and 134 of execute: the call is served by an exploration mode
explores(parameters) ==
    \/ get(parameters, "mode", "match") = "explore_toplevel"
    \/ /\ get(parameters, "mode", "match") = "explore_subcategories"
       /\ get(parameters, "parent_category", <<>>) # <<>>

\* the result of execute when a KeyError is raised inside its try block
category_tree_failed ==
    ToolResult(FALSE, None,
        Text("Error executing category tree tool: {e}", <<"KeyError">>),
        "category_tree")

\* CategoryTreeTool.execute in the modes explore_toplevel and
\* explore_subcategories
CategoryTreeTool_explore(parameters, tree) ==
    IF get(parameters, "mode", "match") = "explore_toplevel"
    THEN IF unnamed(get(tree, "categories", <<>>)) THEN category_tree_failed
         ELSE ToolResult(TRUE,
                  [categories |-> _get_all_top_level_categories(tree),
                   mode |-> "explore_toplevel",
                   audience_segments |-> <<>>],
                  None, "category_tree")
    ELSE IF subcategories_raise(tree, parameters["parent_category"])
         THEN category_tree_failed
         ELSE ToolResult(TRUE,
                  [parent_category |-> parameters["parent_category"],
                   subcategories |->
                       _get_subcategories_for_category(tree,
                           parameters["parent_category"]),
                   mode |-> "explore_subcategories",
                   audience_segments |-> <<>>],
                  None, "category_tree")

\* CategoryTreeTool.execute in the match mode, which serves every other call
CategoryTreeTool_match(parameters, tree) ==
    IF match_raises(tree, get(parameters, "product_description", <<>>),
           get(parameters, "product_features", <<>>),
           get(parameters, "product_keywords", <<>>))
    THEN category_tree_failed
    ELSE ToolResult(TRUE,
             match_result(_match_categories(tree,
                 get(parameters, "product_description", <<>>),
                 get(parameters, "product_features", <<>>),
                 get(parameters, "product_keywords", <<>>),
                 get(parameters, "max_categories", 3),
                 get(parameters, "max_subcategories", 5))),
             None, "category_tree")

\* CategoryTreeTool.execute
CategoryTreeTool_execute(parameters, tree) ==
    IF explores(parameters)
    THEN CategoryTreeTool_explore(parameters, tree)
    ELSE CategoryTreeTool_match(parameters, tree)

----------------------------------------------------------------------------
(* src/tools/__init__.py: ToolRegistry.  A registry is the record of the     *)
(* three class-level dicts: tools (_tools), instances (_instances) and        *)
(* init_errors (_init_errors).  ToolRegistry.register is never called by the  *)
(* program; the module's own registration code fills the dicts at import.     *)

\* the tool classes the module imports, by the name their _get_name returns
tool_classes ==
    [firecrawler |-> "FirecrawlerTool",
     serp_analysis |-> "SerpAnalysisTool",
     category_tree |-> "CategoryTreeTool"]

registered_tools == DOMAIN tool_classes

\* the initialization_error a tool's constructor can leave on the instance
initialization_errors ==
    [firecrawler |->
        { Text("Firecrawl library not installed", <<>>),
          Text("FIRECRAWL_API_KEY not set in environment variables", <<>>) },
     serp_analysis |->
        { Text("SERPAPI_KEY not set in environment variables", <<>>) },
     category_tree |->
        { Text("Failed to load marketing categories from any path. Marketing categories file not found.", <<>>) }]

\* What constructing a tool does in this process: the import of its module
\* failed so that there is no class, or the constructor raises, or it leaves
\* an instance with an initialization_error, or an instance that is available.
ConstructionOutcomes(tool_name) ==
    { [kind |-> "import_failed"], [kind |-> "raises"], [kind |-> "available"] }
    \cup { [kind |-> "unavailable", initialization_error |-> e] :
              e \in initialization_errors[tool_name] }

AllAvailable == [tool_name \in registered_tools |-> [kind |-> "available"]]

\* tool_class(): the instance a constructor returns
instance_of(tool_name, outcome) ==
    [tool_class |-> tool_classes[tool_name],
     initialization_error |->
        IF outcome.kind = "unavailable" THEN outcome.initialization_error ELSE None]

\* Tool.is_available
is_available(instance) == instance.initialization_error = None

\* lines 211-226, 228-243, 245-260: the registration of one tool at import
register_at_import(registry, tool_name, outcome) ==
    IF outcome.kind \in {"import_failed", "raises"}
    THEN registry
    ELSE IF is_available(instance_of(tool_name, outcome))
    THEN [registry EXCEPT
             !.tools = put(@, tool_name, tool_classes[tool_name]),
             !.instances = put(@, tool_name, instance_of(tool_name, outcome))]
    ELSE [registry EXCEPT
             !.init_errors = put(@, tool_name,
                                 instance_of(tool_name, outcome).initialization_error)]

\* the registry when the module has been imported
registry_at_import(construction) ==
    register_at_import(
        register_at_import(
            register_at_import(
                [tools |-> EmptyDict, instances |-> EmptyDict,
                 init_errors |-> EmptyDict],
                "firecrawler", construction["firecrawler"]),
            "serp_analysis", construction["serp_analysis"]),
        "category_tree", construction["category_tree"])

\* lines 83-101 of get_tool: the class is in the index and has no entry in
\* instances, so it is constructed
construct_instance(registry, name, outcome) ==
    IF outcome.kind = "available"
    THEN [registry EXCEPT !.instances = put(@, name, instance_of(name, outcome))]
    ELSE IF outcome.kind = "unavailable"
    THEN [registry EXCEPT
             !.init_errors = put(@, name,
                 Text("Tool {name} is not available: {initialization_error}",
                      <<name, outcome.initialization_error>>)),
             !.instances = put(@, name, None)]
    ELSE [registry EXCEPT
             !.init_errors = put(@, name,
                 Text("Error creating tool instance {name}: {e}", <<name>>)),
             !.instances = put(@, name, None)]

\* get_tool that constructs an imported class whenever instances holds no
\* usable instance of it, rather than only a class found in the index
get_tool_constructing_again(registry, name, construction) ==
    LET constructs == /\ name \in registered_tools
                      /\ construction[name].kind # "import_failed"
                      /\ get(registry.instances, name, None) = None
        registry1 == IF constructs
                     THEN construct_instance(registry, name, construction[name])
                     ELSE IF name \notin DOMAIN registry.instances
                     THEN [registry EXCEPT
                              !.init_errors = put(@, name,
                                  Text("Tool class {name} not found in registry",
                                       <<name>>))]
                     ELSE registry
    IN  [registry |-> registry1,
         instance |-> get(registry1.instances, name, None),
         constructions |-> IF constructs THEN 1 ELSE 0]

\* line 112 of get_tool: what the call returns and leaves behind
returned_instance(registry, name, constructions) ==
    [registry |-> registry,
     instance |-> get(registry.instances, name, None),
     constructions |-> constructions]

\* ToolRegistry.get_tool: the registry afterwards, the instance returned (or
\* None) and the number of constructor calls made
get_tool(registry, name, construction) ==
    IF name \in DOMAIN registry.instances
    THEN returned_instance(registry, name, 0)
    ELSE IF name \in DOMAIN registry.tools
    THEN returned_instance(
             construct_instance(registry, name, construction[name]), name, 1)
    ELSE returned_instance(
             [registry EXCEPT
                 !.init_errors = put(@, name,
                     Text("Tool class {name} not found in registry", <<name>>))],
             name, 0)

\* lines 158-159 of get_initialization_status, for one name of the index
initialized(registry, name, construction) ==
    IF name \in DOMAIN registry.tools
    THEN get_tool(registry, name, construction).registry
    ELSE registry

\* ToolRegistry.get_initialization_status: the registry afterwards and the
\* status returned
get_initialization_status(registry, construction) ==
    LET registry1 ==
            initialized(
                initialized(
                    initialized(registry, "firecrawler", construction),
                    "serp_analysis", construction),
                "category_tree", construction)
    IN  [registry |-> registry1,
         status |->
            [name \in DOMAIN registry1.tools |->
                IF /\ name \in DOMAIN registry1.instances
                   /\ registry1.instances[name] # None
                THEN Text("initialized", <<>>)
                ELSE get(registry1.init_errors, name, Text("unknown error", <<>>))]]

\* tool.execute(parameters), line 188.
\* env: what the external services do during the call
Tool_execute(instance, parameters, env, tree) ==
    CASE instance.tool_class = "FirecrawlerTool" ->
            FirecrawlerTool_execute(parameters, env.scrape)
      [] instance.tool_class = "SerpAnalysisTool" ->
            SerpAnalysisTool_execute(parameters, env.search)
      [] instance.tool_class = "CategoryTreeTool" ->
            CategoryTreeTool_execute(parameters, tree)

\* lines 175-184 of execute_tool: the result for a tool that get_tool did not
\* return
not_available(registry, tool_name) ==
    ToolResult(FALSE, None,
        IF tool_name \in DOMAIN registry.init_errors
        THEN Text("Tool not found or not available: {tool_name}. Initialization error: {init_error}",
                  <<tool_name, registry.init_errors[tool_name]>>)
        ELSE Text("Tool not found or not available: {tool_name}", <<tool_name>>),
        tool_name)

\* execute_tool that refuses every tool once any registration has failed
ToolRegistry_execute_tool_all_or_nothing(registry, tool_name, parameters, construction, raises, env, tree) ==
    LET got == get_tool(registry, tool_name, construction)
        executes == /\ got.instance # None
                    /\ DOMAIN got.registry.init_errors = {}
    IN  [registry |-> got.registry,
         constructions |-> got.constructions,
         executed |-> executes,
         result |->
            IF ~executes
            THEN not_available(got.registry, tool_name)
            ELSE IF raises
            THEN ToolResult(FALSE, None,
                     Text("Error executing tool {tool_name}: {e}", <<tool_name>>),
                     tool_name)
            ELSE Tool_execute(got.instance, parameters, env, tree)]

\* execute_tool whose failure results carry an empty result mapping
ToolRegistry_execute_tool_empty_result(registry, tool_name, parameters, construction, raises, env, tree) ==
    LET got == get_tool(registry, tool_name, construction)
    IN  [registry |-> got.registry,
         constructions |-> got.constructions,
         executed |-> got.instance # None,
         result |->
            IF got.instance = None
            THEN [not_available(got.registry, tool_name) EXCEPT !.result = EmptyDict]
            ELSE IF raises
            THEN ToolResult(FALSE, EmptyDict,
                     Text("Error executing tool {tool_name}: {e}", <<tool_name>>),
                     tool_name)
            ELSE Tool_execute(got.instance, parameters, env, tree)]

\* lines 173-198 of execute_tool, got being what get_tool returned
executed_on(got, tool_name, parameters, raises, env, tree) ==
    [registry |-> got.registry,
     constructions |-> got.constructions,
     executed |-> got.instance # None,
     result |->
        IF got.instance = None
        THEN not_available(got.registry, tool_name)
        ELSE IF raises
        THEN ToolResult(FALSE, None,
                 Text("Error executing tool {tool_name}: {e}", <<tool_name>>),
                 tool_name)
        ELSE Tool_execute(got.instance, parameters, env, tree)]

\* ToolRegistry.execute_tool: the registry afterwards, the number of
\* constructor calls made, whether tool.execute was invoked, and the
\* ToolResult returned.  raises: tool.execute raises instead of returning.
ToolRegistry_execute_tool(registry, tool_name, parameters, construction, raises, env, tree) ==
    executed_on(get_tool(registry, tool_name, construction), tool_name,
                parameters, raises, env, tree)

\* self.tool_registry.execute_tool as the orchestrator calls it.  Its
\* constructor has verified that the three tools are available, none of them
\* raises on the parameters the handlers pass, and the handlers call the
\* category tool in its exploration modes only, so that the call returns
\* what ToolRegistry_execute_tool returns for these parameters.
execute_tool(tool_name, parameters, env, tree) ==
    CASE tool_name = "firecrawler" ->
            FirecrawlerTool_execute(parameters, env.scrape)
      [] tool_name = "serp_analysis" ->
            SerpAnalysisTool_execute(parameters, env.search)
      [] tool_name = "category_tree" ->
            CategoryTreeTool_explore(parameters, tree)

----------------------------------------------------------------------------
(* What the world does during one process_message call *)

\* the combined reasoning call of the category_mapping stage: the request
\* raises, or returns text that json.loads rejects, or returns a JSON object
\* of one of these shapes
AnalysisShapes ==
    { "well_formed", "no_categories", "no_segments", "category_without_key",
      "subcategory_without_explanation", "segment_not_object",
      "criteria_not_objects" }

AnalysisOutcomes ==
    { [raises |-> TRUE], [raises |-> FALSE, parsable |-> FALSE] }
    \cup { [raises |-> FALSE, parsable |-> TRUE, shape |-> sh] : sh \in AnalysisShapes }

\* the strategy call: the request raises, or returns text, given here as its
\* pieces between blank lines (strategy_text.split("\n\n"))
StrategyOutcomes ==
    { [raises |-> TRUE],
      [raises |-> FALSE, blocks |-> << <<"S","a">>, <<" ">>, <<" ","S","b">> >>],
      [raises |-> FALSE, blocks |-> << <<>> >>] }

\* A fault raised inside a stage handler by a statement that can raise:
\* before the handler stores its result (building a prompt with json.dumps,
\* reading or formatting data) or after it (json.dumps of the stored
\* mapping, the formatting helpers).
FaultPoints ==
    { <<"url_analysis", "after_store">>, <<"market_research", "after_store">>,
      <<"category_mapping", "before_store">>, <<"category_mapping", "after_store">>,
      <<"audience_segmentation", "before_store">>,
      <<"audience_segmentation", "after_store">>,
      <<"marketing_strategy", "before_store">>,
      <<"final_summary", "before_store">> }

NoFault == <<"none", "none">>

\* the stage handlers of one pipeline run, each narrating once
StageHandlers ==
    << "url_analysis", "market_research", "category_mapping",
       "audience_segmentation", "marketing_strategy", "final_summary" >>

NominalEnv ==
    [scrape |-> [raises |-> FALSE, value |-> ScrapeFull],
     search |-> [raises |-> FALSE, value |-> OrganicRich],
     analysis |-> [raises |-> FALSE, parsable |-> TRUE, shape |-> "well_formed"],
     strategies |-> [raises |-> FALSE,
                     blocks |-> << <<"S","a">>, <<" ">>, <<" ","S","b">> >>],
     narration_failure |-> 0,
     fault |-> NoFault]

\* narration_failure = n > 0: the n-th narration request of the call raises
AllEnvs ==
    [scrape : ScrapeOutcomes, search : SearchOutcomes,
     analysis : AnalysisOutcomes, strategies : StrategyOutcomes,
     narration_failure : 0..Len(StageHandlers),
     fault : FaultPoints \cup {NoFault}]

anomalies(env) ==
    Cardinality({f \in DOMAIN NominalEnv : env[f] # NominalEnv[f]})

Envs == {env \in AllEnvs : anomalies(env) <= MaxAnomalies}

----------------------------------------------------------------------------
(* src/workflow_orchestrator.py *)

Stages ==
    << "initial", "url_analysis", "market_research", "category_mapping",
       "audience_segmentation", "marketing_strategy", "final_summary" >>

\* WorkflowOrchestrator.system_prompts, each by its opening words
system_prompts ==
    [initial |-> "You are Audience Andy ... Keep your messages short and conversational.",
     url_analysis |-> "You are analyzing a product URL.",
     market_research |-> "Based on the detailed product information, conduct comprehensive market research",
     category_mapping |-> "Map the product to appropriate marketing categories",
     audience_segmentation |-> "Create detailed, actionable audience segments",
     marketing_strategy |-> "Develop comprehensive, data-driven marketing strategy recommendations",
     final_summary |-> "Create a comprehensive, well-structured summary of the complete analysis"]

followup_context ==
    "The user is asking follow-up questions about the completed analysis."

\* The running call: the orchestrator's fields, and what the call has done
\* so far (tool_calls, gw_calls, trail), the value being returned and
\* whether an exception is propagating.
\* the data mappings that are not empty
held(c) ==
    { name \in {"product_data", "market_data", "category_data", "final_results"} :
        truthy(c[name]) }

\* a call through the registry: what was asked, what came back, and the stage
\* and data the orchestrator held when it was made
record_tool(c, tool_name, parameters, result) ==
    [c EXCEPT !.tool_calls = Append(@, [tool_name |-> tool_name,
                                         parameters |-> parameters,
                                         result |-> result,
                                         stage |-> c.stage,
                                         data |-> held(c)])]

\* one stage handler's part in the call: the stage it was entered in, how its
\* own work ended and the stage it left behind before any next handler ran
record_handler(c, handler, entry_stage, outcome) ==
    [c EXCEPT !.trail = Append(@, [handler |-> handler,
                                   entry_stage |-> entry_stage,
                                   outcome |-> outcome,
                                   stage |-> c.stage])]

raise(c) == [c EXCEPT !.exc = TRUE]

narrations(c) ==
    Cardinality({i \in 1..Len(c.gw_calls) : c.gw_calls[i].purpose = "narration"})

\* _get_ai_response sending the whole history instead of its last ten entries
_get_ai_response_whole_history(c, message_content, env) ==
    LET history1 == Append(c.history,
                        [role |-> "assistant", content |-> message_content])
        template == IF c.stage \in DOMAIN system_prompts
                    THEN c.stage ELSE "initial"
        messages == <<[role |-> "system", content |-> <<system_prompts[template]>>]>>
                        \o history1
        raises == env.narration_failure = narrations(c) + 1
        ai_message == Text("{completion}", <<template, message_content>>)
        request == [purpose |-> "narration", template |-> template,
                    messages |-> messages, raised |-> raises]
    IN  IF raises
        THEN [c EXCEPT !.history = history1,
                       !.gw_calls = Append(@, request),
                       !.returned = <<Text("I'm having trouble generating a response. Please try again. Error: {e}", <<"gateway raised">>)>>]
        ELSE [c EXCEPT !.history = Append(history1,
                                      [role |-> "assistant", content |-> ai_message]),
                       !.gw_calls = Append(@, request),
                       !.returned = <<ai_message>>]

\* _get_ai_response letting the exception of the completion request through
_get_ai_response_raising(c, message_content, env) ==
    LET history1 == Append(c.history,
                        [role |-> "assistant", content |-> message_content])
        template == IF c.stage \in DOMAIN system_prompts
                    THEN c.stage ELSE "initial"
        messages == <<[role |-> "system", content |-> <<system_prompts[template]>>]>>
                        \o last(history1, 10)
        raises == env.narration_failure = narrations(c) + 1
        ai_message == Text("{completion}", <<template, message_content>>)
        request == [purpose |-> "narration", template |-> template,
                    messages |-> messages, raised |-> raises]
    IN  IF raises
        THEN [c EXCEPT !.history = history1,
                       !.gw_calls = Append(@, request),
                       !.exc = TRUE]
        ELSE [c EXCEPT !.history = Append(history1,
                                      [role |-> "assistant", content |-> ai_message]),
                       !.gw_calls = Append(@, request),
                       !.returned = <<ai_message>>]

_get_ai_response(c, message_content, env) ==
    LET history1 == Append(c.history,
                        [role |-> "assistant", content |-> message_content])
        template == IF c.stage \in DOMAIN system_prompts
                    THEN c.stage ELSE "initial"
        system_prompt ==
            IF /\ c.stage = "final_summary"
               /\ truthy(c.product_data)
               /\ truthy(c.final_results)
            THEN <<system_prompts[template], followup_context>>
            ELSE <<system_prompts[template]>>
        messages == <<[role |-> "system", content |-> system_prompt]>>
                        \o last(history1, 10)
        raises == env.narration_failure = narrations(c) + 1
        ai_message == Text("{completion}", <<template, message_content>>)
        request == [purpose |-> "narration", template |-> template,
                    messages |-> messages, raised |-> raises]
    IN  IF raises
        THEN [c EXCEPT !.history = history1,
                       !.gw_calls = Append(@, request),
                       !.returned = <<Text("I'm having trouble generating a response. Please try again. Error: {e}", <<"gateway raised">>)>>]
        ELSE [c EXCEPT !.history = Append(history1,
                                      [role |-> "assistant", content |-> ai_message]),
                       !.gw_calls = Append(@, request),
                       !.returned = <<ai_message>>]

\* f"{own_response}\n\n{next_response}": what a handler returns after the next
\* handler has run
combined(narrated, next) ==
    [next EXCEPT !.returned = narrated.returned \o next.returned]

\* a handler's except clause: the fault is caught and an apology narrated
except_Exception(body, handler, entry_stage, apology, env) ==
    IF body.exc
    THEN record_handler(
             _get_ai_response([body EXCEPT !.exc = FALSE], apology, env),
             handler, entry_stage, "fault")
    ELSE body

RECURSIVE strategies_from(_, _)
\* the loop of _generate_marketing_strategies over strategy_blocks[i..]
strategies_from(strategy_blocks, i) ==
    IF i > Len(strategy_blocks) THEN <<>>
    ELSE (IF strip(strategy_blocks[i]) # <<>>
          THEN <<[id |-> i, content |-> strip(strategy_blocks[i])]>>
          ELSE <<>>) \o strategies_from(strategy_blocks, i + 1)

\* the call with the exception raised, or with the strategies in c.returned
_generate_marketing_strategies(c, prompt, env) ==
    LET request == [purpose |-> "strategies", template |-> "marketing strategy expert",
                    messages |-> <<prompt>>, raised |-> env.strategies.raises]
        c1 == [c EXCEPT !.gw_calls = Append(@, request)]
    IN  IF env.strategies.raises THEN raise(c1)
        ELSE [c1 EXCEPT !.returned = strategies_from(env.strategies.blocks, 1)]

\* _handle_final_summary with an except clause that also resets the stage
_handle_final_summary_resetting_on_fault(c, env) ==
    LET summary == Text("# Complete Analysis for {product_title} ... Thank you for using Audience Andy!",
                        <<get(c.product_data, "title", "the analyzed product"),
                          c.product_data, c.market_data,
                          get(c.category_data, "matched_categories", <<>>),
                          get(c.final_results, "audience_segments", <<>>),
                          get(c.final_results, "marketing_strategies", <<>>)>>)
        body == IF env.fault = <<"final_summary", "before_store">> THEN raise(c)
                ELSE record_handler(_get_ai_response(c, summary, env),
                         "final_summary", c.stage, "completed")
    IN  IF body.exc
        THEN record_handler(
                 _get_ai_response([body EXCEPT !.exc = FALSE, !.stage = "initial"],
                     Text("I encountered an error while generating the final summary: {e}. Please ask about specific parts of the analysis you're interested in.",
                          <<"fault">>), env),
                 "final_summary", c.stage, "fault")
        ELSE body

_handle_final_summary(c, env) ==
    LET summary == Text("# Complete Analysis for {product_title} ... Thank you for using Audience Andy!",
                        <<get(c.product_data, "title", "the analyzed product"),
                          c.product_data, c.market_data,
                          get(c.category_data, "matched_categories", <<>>),
                          get(c.final_results, "audience_segments", <<>>),
                          get(c.final_results, "marketing_strategies", <<>>)>>)
        body == IF env.fault = <<"final_summary", "before_store">> THEN raise(c)
                ELSE record_handler(_get_ai_response(c, summary, env),
                         "final_summary", c.stage, "completed")
    IN  except_Exception(body, "final_summary", c.stage,
            Text("I encountered an error while generating the final summary: {e}. Please ask about specific parts of the analysis you're interested in.",
                          <<"fault">>),
            env)

\* _handle_marketing_strategy without the assignment of line 850
_handle_marketing_strategy_without_advance(c, env) ==
    LET strategies_prompt ==
            Text("Based on the following product and audience data, generate 3-5 marketing strategy recommendations.",
                 <<c.product_data, c.market_data,
                   get(c.final_results, "audience_segments", <<>>)>>)
        generated == _generate_marketing_strategies(c, strategies_prompt, env)
        marketing_strategies == generated.returned
        c1 == [generated EXCEPT !.final_results =
                                    put(@, "marketing_strategies", marketing_strategies),
                                !.returned = <<>>]
        strategies_response ==
            Text("Here are my recommended marketing strategies: {strategies} Now I'll create a comprehensive summary of the entire analysis...",
                 <<marketing_strategies>>)
        narrated == _get_ai_response(c1, strategies_response, env)
        advanced == record_handler(narrated,
                        "marketing_strategy", c.stage, "advanced")
        next == _handle_final_summary(advanced, env)
        body == IF env.fault = <<"marketing_strategy", "before_store">> THEN raise(c)
                ELSE IF generated.exc THEN generated
                ELSE combined(narrated, next)
    IN  except_Exception(body, "marketing_strategy", c.stage,
            Text("I encountered an error while generating marketing strategies: {e}. Let's try again with more detailed information.",
                          <<"fault">>),
            env)

\* _handle_marketing_strategy with the two parts of line 856 exchanged
_handle_marketing_strategy_summary_first(c, env) ==
    LET strategies_prompt ==
            Text("Based on the following product and audience data, generate 3-5 marketing strategy recommendations.",
                 <<c.product_data, c.market_data,
                   get(c.final_results, "audience_segments", <<>>)>>)
        generated == _generate_marketing_strategies(c, strategies_prompt, env)
        marketing_strategies == generated.returned
        c1 == [generated EXCEPT !.final_results =
                                    put(@, "marketing_strategies", marketing_strategies),
                                !.returned = <<>>]
        strategies_response ==
            Text("Here are my recommended marketing strategies: {strategies} Now I'll create a comprehensive summary of the entire analysis...",
                 <<marketing_strategies>>)
        narrated == _get_ai_response(c1, strategies_response, env)
        advanced == record_handler([narrated EXCEPT !.stage = "final_summary"],
                        "marketing_strategy", c.stage, "advanced")
        next == _handle_final_summary(advanced, env)
        body == IF env.fault = <<"marketing_strategy", "before_store">> THEN raise(c)
                ELSE IF generated.exc THEN generated
                ELSE combined(next, narrated)
    IN  except_Exception(body, "marketing_strategy", c.stage,
            Text("I encountered an error while generating marketing strategies: {e}. Let's try again with more detailed information.",
                          <<"fault">>),
            env)

_handle_marketing_strategy(c, env) ==
    LET strategies_prompt ==
            Text("Based on the following product and audience data, generate 3-5 marketing strategy recommendations.",
                 <<c.product_data, c.market_data,
                   get(c.final_results, "audience_segments", <<>>)>>)
        generated == _generate_marketing_strategies(c, strategies_prompt, env)
        marketing_strategies == generated.returned
        c1 == [generated EXCEPT !.final_results =
                                    put(@, "marketing_strategies", marketing_strategies),
                                !.returned = <<>>]
        strategies_response ==
            Text("Here are my recommended marketing strategies: {strategies} Now I'll create a comprehensive summary of the entire analysis...",
                 <<marketing_strategies>>)
        narrated == _get_ai_response(c1, strategies_response, env)
        advanced == record_handler([narrated EXCEPT !.stage = "final_summary"],
                        "marketing_strategy", c.stage, "advanced")
        next == _handle_final_summary(advanced, env)
        body == IF env.fault = <<"marketing_strategy", "before_store">> THEN raise(c)
                ELSE IF generated.exc THEN generated
                ELSE combined(narrated, next)
    IN  except_Exception(body, "marketing_strategy", c.stage,
            Text("I encountered an error while generating marketing strategies: {e}. Let's try again with more detailed information.",
                          <<"fault">>),
            env)

\* a JSON object, as against a JSON string
is_object(value) == "py_str" \notin DOMAIN value

\* _format_audience_segments raises: a criterion among the first three of a
\* segment is not an object (criterion.get)
format_segments_raises(segments) ==
    \E i \in 1..Len(segments) :
        LET criteria == take(get(segments[i], "targeting_criteria", <<>>), 3)
        IN  \E j \in 1..Len(criteria) : ~is_object(criteria[j])

_handle_audience_segmentation(c, env) ==
    LET audience_segments == get(c.category_data, "audience_segments", <<>>)
        c1 == [c EXCEPT !.final_results =
                            put(@, "audience_segments", audience_segments)]
        segments_info ==
            Text("Based on my analysis, here are the recommended audience segments for this product: {segments} Now I'll develop marketing strategies for these audience segments...",
                 <<audience_segments>>)
        narrated == _get_ai_response(c1, segments_info, env)
        advanced == record_handler([narrated EXCEPT !.stage = "marketing_strategy"],
                        "audience_segmentation", c.stage, "advanced")
        next == _handle_marketing_strategy(advanced, env)
        body ==
            IF ~truthy(c.category_data)
            THEN record_handler(
                     _get_ai_response(c,
                         Text("I'm missing the necessary category information to generate audience segments. Let's go back and make sure we have proper category mapping.", <<>>),
                         env),
                     "audience_segmentation", c.stage, "precondition_failed")
            ELSE IF ~truthy(audience_segments)
            THEN record_handler(
                     _get_ai_response(c,
                         Text("I couldn't find audience segments in the category data. This is likely a technical issue. Let me generate audience segments based on the product and category information we have.", <<>>),
                         env),
                     "audience_segmentation", c.stage, "precondition_failed")
            ELSE IF \/ \E i \in 1..Len(audience_segments) :
                            ~is_object(audience_segments[i])
                    \/ env.fault = <<"audience_segmentation", "before_store">>
            THEN raise(c)
            ELSE IF \/ format_segments_raises(audience_segments)
                    \/ env.fault = <<"audience_segmentation", "after_store">>
            THEN raise(c1)
            ELSE combined(narrated, next)
    IN  except_Exception(body, "audience_segmentation", c.stage,
            Text("I encountered an error during audience segmentation: {e}. Let's try again with more detailed information about the product and its categories.",
                          <<"fault">>),
            env)

\* The JSON object the reasoning call returns, by shape.  The model picks the
\* first category of the hierarchy that has subcategories (the first one when
\* none has) and its first subcategory.
analysis_data(shape, category_hierarchy) ==
    LET with_subs == {i \in 1..Len(category_hierarchy) :
                         Len(category_hierarchy[i].subcategories) > 0}
        pick == IF with_subs = {} THEN 1
                ELSE CHOOSE i \in with_subs : \A j \in with_subs : i <= j
        chosen == category_hierarchy[pick]
        subs == IF chosen.subcategories = <<>> THEN <<>>
                ELSE IF shape = "subcategory_without_explanation"
                THEN <<[name |-> chosen.subcategories[1].name]>>
                ELSE <<[name |-> chosen.subcategories[1].name,
                        explanation |-> "fits the product"]>>
        criteria == IF shape = "criteria_not_objects"
                    THEN <<[py_str |-> "interest"]>>
                    ELSE <<[type |-> "interest", category |-> chosen.name]>>
        segment(n) == [name |-> n, description |-> "people who ...",
                       targeting_criteria |-> criteria]
    IN  [selected_categories |->
            IF shape = "no_categories" THEN <<>>
            ELSE IF shape = "category_without_key"
            THEN <<[name |-> chosen.name, explanation |-> "relevant"]>>
            ELSE <<[category |-> chosen.name, explanation |-> "relevant",
                    selected_subcategories |-> subs]>>,
         audience_segments |->
            IF shape = "no_segments" THEN <<>>
            ELSE IF shape = "segment_not_object"
            THEN <<[py_str |-> "Young professionals"]>>
            ELSE <<segment("Segment A"), segment("Segment B"), segment("Segment C")>>]

\* the two-segment default of the category_mapping stage
default_segments(product_title, selected_categories) ==
    << [name |-> Text("{product_title} Enthusiasts", <<product_title>>),
        description |-> Text("People interested in {product_title} and similar products",
                             <<product_title>>),
        targeting_criteria |->
            <<[type |-> "interest", category |-> selected_categories[1]["category"]]>>],
       [name |-> "Value Shoppers",
        description |-> "Price-conscious consumers looking for quality products",
        targeting_criteria |->
            <<[type |-> "behavior", category |-> "Shopping Behavior",
               value |-> "Price Comparison"]>>] >>

\* lines 505-513 and 519: the explore_subcategories calls for the first five
\* top-level categories, as recorded calls
subcategory_calls(c, top_level_categories, product_description, env, tree) ==
    LET considered == take(top_level_categories, 5)
        sub_params(i) == [product_description |-> product_description,
                          mode |-> "explore_subcategories",
                          parent_category |-> considered[i].name]
    IN  [i \in 1..Len(considered) |->
            [tool_name |-> "category_tree",
             parameters |-> sub_params(i),
             result |-> execute_tool("category_tree", sub_params(i), env, tree),
             stage |-> c.stage,
             data |-> held(c)]]

\* lines 516-537: each category with its description, looked up by name, and
\* without subcategories when its call failed
category_hierarchy_of(top_level_categories, calls) ==
    [i \in 1..Len(calls) |->
        [name |-> calls[i].parameters.parent_category,
         description |->
            get(top_level_categories[
                    CHOOSE k \in 1..Len(top_level_categories) :
                        /\ top_level_categories[k].name =
                               calls[i].parameters.parent_category
                        /\ \A l \in 1..(k - 1) :
                               top_level_categories[l].name #
                                   calls[i].parameters.parent_category],
                "description", ""),
         subcategories |->
            IF calls[i].result.success
            THEN get(calls[i].result.result, "subcategories", <<>>)
            ELSE <<>>]]

\* lines 641-654: the except branch's category, the first top-level category
\* with up to two of its subcategories
fallback_category(top_level_categories, category_hierarchy) ==
    LET subs == take(category_hierarchy[
                        CHOOSE i \in 1..Len(category_hierarchy) :
                            category_hierarchy[i].name = top_level_categories[1].name
                     ].subcategories, 2)
    IN  [category |-> top_level_categories[1].name,
         explanation |-> "Default selection based on product type",
         selected_subcategories |->
            [i \in 1..Len(subs) |->
                [name |-> subs[i].name,
                 explanation |-> "Relevant to product features"]]]

\* lines 592-672: selected_categories, given what the reasoning call did
selected_categories_of(answer, data, top_level_categories, category_hierarchy) ==
    IF answer.raises \/ ~answer.parsable
    THEN <<fallback_category(top_level_categories, category_hierarchy)>>
    ELSE IF ~truthy(data.selected_categories)
    THEN <<[category |-> top_level_categories[1].name,
            explanation |-> "Most relevant category based on product description",
            selected_subcategories |-> <<>>]>>
    ELSE data.selected_categories

\* audience_segments without the defaults of lines 618-633 and 656-672
audience_segments_as_answered(answer, data, product_title, selected_categories) ==
    IF answer.raises \/ ~answer.parsable THEN <<>> ELSE data.audience_segments

\* lines 592-672: audience_segments, given what the reasoning call did
audience_segments_of(answer, data, product_title, selected_categories) ==
    IF answer.raises \/ ~answer.parsable \/ ~truthy(data.audience_segments)
    THEN default_segments(product_title, selected_categories)
    ELSE data.audience_segments

\* lines 678-694: cat["category"] and sub["name"] raise KeyError on a missing key
conversion_raises(selected_categories) ==
    \E i \in 1..Len(selected_categories) :
        \/ "category" \notin DOMAIN selected_categories[i]
        \/ \E j \in 1..Len(get(selected_categories[i], "selected_subcategories", <<>>)) :
               "name" \notin DOMAIN
                   get(selected_categories[i], "selected_subcategories", <<>>)[j]

\* lines 684-688
final_categories_of(selected_categories) ==
    [i \in 1..Len(selected_categories) |->
        [category |-> selected_categories[i]["category"],
         explanation |-> get(selected_categories[i], "explanation", ""),
         subcategories |->
            get(selected_categories[i], "selected_subcategories", <<>>)]]

\* lines 691-694
matched_categories_of(final_categories) ==
    [i \in 1..Len(final_categories) |->
        [category |-> final_categories[i].category,
         subcategories |->
            [j \in 1..Len(final_categories[i].subcategories) |->
                [name |-> final_categories[i].subcategories[j]["name"]]]]]

\* lines 708-717: sub['explanation'] raises KeyError on a missing key
display_raises(final_categories) ==
    \E i \in 1..Len(final_categories) :
        \E j \in 1..Len(final_categories[i].subcategories) :
            "explanation" \notin DOMAIN final_categories[i].subcategories[j]

\* lines 674-732: conversion, storing, narration and the next stage
store_category_data(c3, entry_stage, selected_categories, audience_segments, env) ==
    LET final_categories == final_categories_of(selected_categories)
        c4 == [c3 EXCEPT !.category_data =
                  [matched_categories |-> matched_categories_of(final_categories),
                   audience_segments |-> audience_segments]]
        category_info ==
            Text("I've analyzed your product and identified these relevant marketing categories: {categories} Now I'll generate audience segments based on these categories...",
                 <<final_categories>>)
        narrated == _get_ai_response(c4, category_info, env)
        advanced == record_handler([narrated EXCEPT !.stage = "audience_segmentation"],
                        "category_mapping", entry_stage, "advanced")
    IN  IF conversion_raises(selected_categories)
        THEN raise(c3)
        ELSE IF \/ display_raises(final_categories)
                \/ env.fault = <<"category_mapping", "after_store">>
        THEN raise(c4)
        ELSE combined(narrated, _handle_audience_segmentation(advanced, env))

\* lines 503-672: the category hierarchy and the combined reasoning call
analyze_categories(c1, entry_stage, top_level_categories, env, tree) ==
    LET product_title == get(c1.product_data, "title", Unknown_Product)
        product_description == get(c1.product_data, "description", "")
        calls == subcategory_calls(c1, top_level_categories, product_description,
                                   env, tree)
        c2 == [c1 EXCEPT !.tool_calls = @ \o calls]
        category_hierarchy == category_hierarchy_of(top_level_categories, calls)
        analysis_prompt ==
            Text("Analyze this product and perform three tasks: ...",
                 <<product_title, product_description,
                   get(c1.product_data, "features", <<>>),
                   get(c1.market_data, "keywords", <<>>), category_hierarchy>>)
        request == [purpose |-> "analysis", template |-> "marketing categorization",
                    messages |-> <<analysis_prompt>>, raised |-> env.analysis.raises,
                    answer |-> env.analysis, fault |-> env.fault]
        c3 == [c2 EXCEPT !.gw_calls = Append(@, request)]
        data == analysis_data(env.analysis.shape, category_hierarchy)
        selected_categories ==
            selected_categories_of(env.analysis, data, top_level_categories,
                                   category_hierarchy)
    IN  IF env.fault = <<"category_mapping", "before_store">>
        THEN raise(c2)
        ELSE store_category_data(c3, entry_stage, selected_categories,
                 audience_segments_of(env.analysis, data, product_title,
                                      selected_categories),
                 env)

\* lines 479-501: the explore_toplevel call and what follows it
explore_categories(c, top_level_result, env, tree) ==
    IF ~top_level_result.success
    THEN record_handler(
             _get_ai_response(c,
                 Text("I had trouble exploring marketing categories: {error}. Let's try a different approach.",
                      <<top_level_result.error>>),
                 env),
             "category_mapping", c.stage, "tool_failed")
    ELSE IF ~truthy(get(top_level_result.result, "categories", <<>>))
    THEN record_handler(
             _get_ai_response(c,
                 Text("I couldn't find any marketing categories to explore. This is likely a technical issue. Let's try a different approach to analyze your product.", <<>>),
                 env),
             "category_mapping", c.stage, "tool_failed")
    ELSE analyze_categories(c, c.stage,
             get(top_level_result.result, "categories", <<>>), env, tree)

_handle_category_mapping(c, env, tree) ==
    LET top_params == [product_description |-> get(c.product_data, "description", ""),
                       mode |-> "explore_toplevel"]
        top_level_result == execute_tool("category_tree", top_params, env, tree)
        body ==
            IF ~truthy(c.product_data) \/ ~truthy(c.market_data)
            THEN record_handler(
                     _get_ai_response(c,
                         Text("I'm missing the necessary product or market information to perform category mapping. Let's go back and make sure we have both product details and market research.", <<>>),
                         env),
                     "category_mapping", c.stage, "precondition_failed")
            ELSE explore_categories(
                     record_tool(c, "category_tree", top_params, top_level_result),
                     top_level_result, env, tree)
    IN  except_Exception(body, "category_mapping", c.stage,
            Text("I encountered an error during category mapping: {e}. Let's try again with more detailed product information.",
                 <<"fault">>),
            env)

\* lines 413-422: placeholders for competitors and keywords that are missing
validated_market_data(market_data, product_title) ==
    LET with_competitors ==
            IF ~truthy(get(market_data, "competitors", <<>>))
            THEN put(market_data, "competitors", <<"Similar products in the market">>)
            ELSE market_data
    IN  IF ~truthy(get(market_data, "keywords", <<>>))
        THEN put(with_competitors, "keywords",
                 IF Len(split(product_title)) < 3
                 THEN split(product_title) \o <<W_online, W_quality, W_popular>>
                 ELSE split(product_title))
        ELSE with_competitors

\* lines 408-451: storing, narration and the next stage
store_market_data(c1, entry_stage, product_title, market_data, env, tree) ==
    LET c2 == [c1 EXCEPT !.market_data = market_data]
        market_info ==
            Text("I've researched the market for {product_title}. Here's what I found: {competitors} {keywords} Now I'll proceed with mapping this product to marketing categories...",
                 <<product_title,
                   get(market_data, "competitors", <<"No competitors found">>),
                   get(market_data, "keywords", <<"No keywords found">>)>>)
        narrated == _get_ai_response(c2, market_info, env)
        advanced == record_handler([narrated EXCEPT !.stage = "category_mapping"],
                        "market_research", entry_stage, "advanced")
    IN  IF env.fault = <<"market_research", "after_store">>
        THEN raise(c2)
        ELSE combined(narrated, _handle_category_mapping(advanced, env, tree))

\* lines 399-406: what follows the serp_analysis call
research_market(c1, entry_stage, product_title, result, env, tree) ==
    IF ~result.success
    THEN record_handler(
             _get_ai_response(c1,
                 Text("I had trouble conducting market research: {error}. Let's try again later or use a different approach.",
                      <<result.error>>),
                 env),
             "market_research", entry_stage, "tool_failed")
    ELSE store_market_data(c1, entry_stage, product_title,
             validated_market_data(result.result, product_title), env, tree)

_handle_market_research(c, env, tree) ==
    LET product_title == get(c.product_data, "title", <<>>)
        params == [query |-> product_title, results_count |-> 10]
        result == execute_tool("serp_analysis", params, env, tree)
        body ==
            IF ~truthy(c.product_data) \/ ~truthy(product_title)
            THEN record_handler(
                     _get_ai_response(c,
                         Text("I'm missing the necessary product information to conduct market research. Let's go back and analyze the product URL again.", <<>>),
                         env),
                     "market_research", c.stage, "precondition_failed")
            ELSE research_market(record_tool(c, "serp_analysis", params, result),
                     c.stage, product_title, result, env, tree)
    IN  except_Exception(body, "market_research", c.stage,
            Text("I encountered an error during market research: {e}. Let's try again later with more specific information.",
                 <<"fault">>),
            env)

\* first_url without the break of line 305: the last such word
first_url_without_break(user_message) ==
    LET words == split(user_message)
        at == {i \in 1..Len(words) : startswith(words[i], W_http)}
    IN  IF at = {} THEN <<>>
        ELSE strip(words[CHOOSE i \in at : \A j \in at : i >= j])

\* the first word of the message that starts with "http", <<>> when none does
first_url(user_message) ==
    LET words == split(user_message)
        at == {i \in 1..Len(words) : startswith(words[i], W_http)}
    IN  IF at = {} THEN <<>>
        ELSE strip(words[CHOOSE i \in at : \A j \in at : i <= j])

\* the product data stored as the tool returned it, without lines 330-340
validated_product_data_as_returned(product_data, url) == product_data

\* lines 330-340: placeholders for a title, features or description that are
\* missing
validated_product_data(product_data, url) ==
    LET last_piece == split_sep(url, "/")[Len(split_sep(url, "/"))]
        with_title ==
            IF ~truthy(get(product_data, "title", <<>>))
            THEN put(product_data, "title",
                     IF last_piece # <<>> THEN last_piece ELSE Unknown_Product)
            ELSE product_data
        with_features ==
            IF ~truthy(get(product_data, "features", <<>>))
            THEN put(with_title, "features", <<"Product available online">>)
            ELSE with_title
    IN  IF get(product_data, "description", "") = ""
        THEN put(with_features, "description",
                 Text("Online product at {url}", <<url>>))
        ELSE with_features

\* lines 325-372: storing, narration and the next stage
store_product_data(c1, entry_stage, url, product_data, env, tree) ==
    LET c2 == [c1 EXCEPT !.product_data = product_data]
        product_info ==
            Text("I've analyzed the product at {url}. Here's what I found: Product: {title} Price: {price} Key features: {features} Description: {description} I'll now continue with market research for this product...",
                 <<url, get(product_data, "title", "Unknown product"),
                   get(product_data, "price", "Price not found"),
                   get(product_data, "features", <<"No features found">>),
                   get(product_data, "description", "No description found")>>)
        narrated == _get_ai_response(c2, product_info, env)
        advanced == record_handler([narrated EXCEPT !.stage = "market_research"],
                        "url_analysis", entry_stage, "advanced")
    IN  IF env.fault = <<"url_analysis", "after_store">>
        THEN raise(c2)
        ELSE combined(narrated, _handle_market_research(advanced, env, tree))

\* analyze_url with the stage set to url_analysis while the page is looked at
analyze_url_in_its_own_stage(c1, entry_stage, url, result, env, tree) ==
    IF ~result.success
    THEN record_handler(
             _get_ai_response([c1 EXCEPT !.stage = "url_analysis"],
                 Text(<<"I had trouble analyzing that product URL: {error}. ",
                        "Please try a different URL or try again later.">>,
                      <<result.error>>),
                 env),
             "url_analysis", entry_stage, "tool_failed")
    ELSE store_product_data(c1, entry_stage, url,
             validated_product_data(result.result, url), env, tree)

\* lines 316-323: what follows the firecrawler call
analyze_url(c1, entry_stage, url, result, env, tree) ==
    IF ~result.success
    THEN record_handler(
             _get_ai_response(c1,
                 Text(<<"I had trouble analyzing that product URL: {error}. ",
                        "Please try a different URL or try again later.">>,
                      <<result.error>>),
                 env),
             "url_analysis", entry_stage, "tool_failed")
    ELSE store_product_data(c1, entry_stage, url,
             validated_product_data(result.result, url), env, tree)

_handle_url_analysis(c, user_message, env, tree) ==
    LET url == first_url(user_message)
        params == [url |-> url, depth |-> 2]
        result == execute_tool("firecrawler", params, env, tree)
    IN  IF ~truthy(url)
        THEN record_handler(
                 _get_ai_response(c,
                     Text("I couldn't find a valid URL in your message. Please provide a product URL starting with http:// or https://.", <<>>),
                     env),
                 "url_analysis", c.stage, "no_url")
        ELSE except_Exception(
                 analyze_url(record_tool(c, "firecrawler", params, result),
                             c.stage, url, result, env, tree),
                 "url_analysis", c.stage,
                 Text(<<"I encountered an error while analyzing the product: {e}. ",
                        "Please try a different URL or try again later.">>,
                      <<"fault">>),
                 env)

analysis_keywords ==
    { <<"a","n","a","l","y","z","e">>,
      <<"a","n","a","l","y","s","i","s">>,
      <<"r","e","s","e","a","r","c","h">>,
      <<"c","h","e","c","k">>,
      <<"e","x","p","l","o","r","e">>,
      <<"l","o","o","k"," ","a","t">>,
      <<"r","e","v","i","e","w">>,
      <<"e","v","a","l","u","a","t","e">>,
      <<"a","s","s","e","s","s">> }

\* any(word.startswith("http") for word in user_message.split())
contains_url(user_message) ==
    \E i \in 1..Len(split(user_message)) :
        startswith(split(user_message)[i], W_http)

\* any(keyword in user_message.lower() for keyword in analysis_keywords)
is_analysis_request(user_message) ==
    \E keyword \in analysis_keywords : contains(lower(user_message), keyword)

\* is_cancel without strip()
is_cancel_untrimmed(user_message) ==
    \/ lower(user_message) = W_cancel
    \/ lower(user_message) = W_stop

\* user_message.strip().lower() == "cancel" or ... == "stop"
is_cancel(user_message) ==
    \/ lower(strip(user_message)) = W_cancel
    \/ lower(strip(user_message)) = W_stop

\* next_stage leaving the stage as it is
next_stage_unchanged(stage) == stage

\* next_stage for a dispatcher that stays in market_research
next_stage_held_in_market_research(stage) ==
    CASE stage = "url_analysis" -> "market_research"
      [] stage = "market_research" -> "market_research"
      [] stage = "category_mapping" -> "audience_segmentation"
      [] stage = "audience_segmentation" -> "marketing_strategy"
      [] stage = "marketing_strategy" -> "final_summary"

\* the stage process_message assigns before it calls the next handler
next_stage(stage) ==
    CASE stage = "url_analysis" -> "market_research"
      [] stage = "market_research" -> "category_mapping"
      [] stage = "category_mapping" -> "audience_segmentation"
      [] stage = "audience_segmentation" -> "marketing_strategy"
      [] stage = "marketing_strategy" -> "final_summary"

\* process_message hands the message to a handler: the stage it found and the
\* stage it left for the handler
record_dispatch(c, found_stage) ==
    [c EXCEPT !.trail = Append(@, [handler |-> "process_message",
                                   entry_stage |-> found_stage,
                                   outcome |-> "dispatched",
                                   stage |-> c.stage])]

\* in_initial entering url_analysis when it asks for a URL
in_initial_awaiting_url(c0, user_message, env, tree) ==
    IF contains_url(user_message)
    THEN _handle_url_analysis(record_dispatch(c0, "initial"),
                              user_message, env, tree)
    ELSE IF is_analysis_request(user_message)
    THEN _get_ai_response([c0 EXCEPT !.stage = "url_analysis"],
             Text("I'd be happy to analyze a product for you. To get started, please share the product URL you'd like me to analyze.", <<>>),
             env)
    ELSE _get_ai_response(c0, user_message, env)

\* lines 222-236: the message arrives in stage initial
in_initial(c0, user_message, env, tree) ==
    IF contains_url(user_message)
    THEN _handle_url_analysis(record_dispatch(c0, "initial"),
                              user_message, env, tree)
    ELSE IF is_analysis_request(user_message)
    THEN _get_ai_response(c0,
             Text("I'd be happy to analyze a product for you. To get started, please share the product URL you'd like me to analyze.", <<>>),
             env)
    ELSE _get_ai_response(c0, user_message, env)

\* in_final_summary without the assignment of line 248
in_final_summary_keeping_results(c0, user_message, env, tree) ==
    IF contains_url(user_message) /\ is_analysis_request(user_message)
    THEN _handle_url_analysis(
             record_dispatch([c0 EXCEPT !.stage = "initial",
                                        !.product_data = EmptyDict,
                                        !.market_data = EmptyDict,
                                        !.category_data = EmptyDict],
                             "final_summary"),
             user_message, env, tree)
    ELSE _get_ai_response(c0, user_message, env)

\* lines 239-255: the message arrives in stage final_summary
in_final_summary(c0, user_message, env, tree) ==
    IF contains_url(user_message) /\ is_analysis_request(user_message)
    THEN _handle_url_analysis(
             record_dispatch([c0 EXCEPT !.stage = "initial",
                                        !.product_data = EmptyDict,
                                        !.market_data = EmptyDict,
                                        !.category_data = EmptyDict,
                                        !.final_results = EmptyDict],
                             "final_summary"),
             user_message, env, tree)
    ELSE _get_ai_response(c0, user_message, env)

\* lines 258-262: cancel or stop in another stage
canceled(c0, env) ==
    _get_ai_response([c0 EXCEPT !.stage = "initial"],
        Text("I've canceled the analysis. If you'd like to analyze a product, please share a URL and ask me to analyze it.", <<>>),
        env)

\* lines 263-295: any other message in another stage
continue_workflow(c0, env, tree) ==
    LET continued == record_dispatch([c0 EXCEPT !.stage = next_stage(c0.stage)],
                                     c0.stage)
    IN  CASE c0.stage = "url_analysis" ->
                _handle_market_research(continued, env, tree)
          [] c0.stage = "market_research" ->
                _handle_category_mapping(continued, env, tree)
          [] c0.stage = "category_mapping" ->
                _handle_audience_segmentation(continued, env)
          [] c0.stage = "audience_segmentation" ->
                _handle_marketing_strategy(continued, env)
          [] c0.stage = "marketing_strategy" ->
                _handle_final_summary(continued, env)
          [] OTHER ->
                _get_ai_response(c0,
                    Text("I'm not sure what to do next. If you'd like to analyze a product, please share a URL and ask me to analyze it. Or you can ask me a specific question about audience segmentation or marketing strategies.", <<>>),
                    env)

process_message(c, user_message, env, tree) ==
    LET c0 == [c EXCEPT !.history =
                   Append(@, [role |-> "user", content |-> user_message])]
    IN  IF c.stage = "initial"
        THEN in_initial(c0, user_message, env, tree)
        ELSE IF c.stage = "final_summary"
        THEN in_final_summary(c0, user_message, env, tree)
        ELSE IF is_cancel(user_message)
        THEN canceled(c0, env)
        ELSE continue_workflow(c0, env, tree)

----------------------------------------------------------------------------
(* Messages a user sends *)

\* "analyze http://s.io/p"
M_analyze_url == <<"a","n","a","l","y","z","e"," ","h","t","t","p",":","/","/","s",".","i","o","/","p">>

\* "go http://s.io/ https://t.io/q"
M_two_urls == <<"g","o"," ","h","t","t","p",":","/","/","s",".","i","o","/"," ","h","t","t","p","s",":","/","/","t",".","i","o","/","q">>

\* "https://s.io/review"
M_url_review == <<"h","t","t","p","s",":","/","/","s",".","i","o","/","r","e","v","i","e","w">>

\* "see https://test.com/x"
M_example_url == <<"s","e","e"," ","h","t","t","p","s",":","/","/","t","e","s","t",".","c","o","m","/","x">>

\* "httpx"
M_httpx == <<"h","t","t","p","x">>

\* "Check it"
M_keyword == <<"C","h","e","c","k"," ","i","t">>

\* "hi"
M_hi == <<"h","i">>

\* " Cancel "
M_cancel == <<" ","C","a","n","c","e","l"," ">>

\* "stop"
M_stop == <<"s","t","o","p">>

Messages ==
    { M_analyze_url, M_two_urls, M_url_review, M_example_url, M_httpx, M_keyword, M_hi, M_cancel, M_stop }

----------------------------------------------------------------------------
(* The orchestrator of src/api.py and the operations called on it *)

VARIABLES
    current_workflow_stage,
    conversation_history,
    product_data,
    market_data,
    category_data,
    final_results,
    categories,     \* CategoryTreeTool.categories, loaded at construction
    calls,          \* operations completed so far
    last_call,      \* the latest operation: its input and what it did
    pending,        \* the process_message call suspended at an await, if any
    construction,   \* what constructing each tool does in this process
    _tools,         \* ToolRegistry._tools
    _instances,     \* ToolRegistry._instances
    _init_errors,   \* ToolRegistry._init_errors
    registry_log,   \* the calls made on the registry and what each did
    match_log       \* the calls made on the category tool itself and their results

orchestrator_vars ==
    << current_workflow_stage, conversation_history, product_data,
       market_data, category_data, final_results, calls, last_call, pending >>

registry_vars == << construction, _tools, _instances, _init_errors, registry_log >>

vars == << orchestrator_vars, categories, registry_vars, match_log >>

\* the registry's three dicts as an operation finds them
registry ==
    [tools |-> _tools, instances |-> _instances, init_errors |-> _init_errors]

\* the orchestrator's fields as an operation finds them
context ==
    [stage |-> current_workflow_stage,
     history |-> conversation_history,
     product_data |-> product_data,
     market_data |-> market_data,
     category_data |-> category_data,
     final_results |-> final_results,
     tool_calls |-> <<>>,
     gw_calls |-> <<>>,
     trail |-> <<>>,
     returned |-> <<>>,
     exc |-> FALSE]

\* what last_call keeps of the state an operation found
before ==
    [stage |-> current_workflow_stage,
     history_len |-> Len(conversation_history),
     product_data |-> product_data,
     market_data |-> market_data,
     category_data |-> category_data,
     final_results |-> final_results]

\* the fields after an operation that ended with context c
Becomes(c, op, user_message) ==
    /\ current_workflow_stage' = c.stage
    /\ conversation_history' = c.history
    /\ product_data' = c.product_data
    /\ market_data' = c.market_data
    /\ category_data' = c.category_data
    /\ final_results' = c.final_results
    /\ calls' = calls + 1
    /\ last_call' = [op |-> op,
                     user_message |-> user_message,
                     before |-> before,
                     tool_calls |-> c.tool_calls,
                     gw_calls |-> c.gw_calls,
                     trail |-> c.trail,
                     returned |-> c.returned,
                     raised |-> c.exc]
    /\ UNCHANGED << categories, registry_vars, match_log >>

\* the import of src/tools/__init__.py: the registration code has run
ImportTools ==
    /\ _tools = registry_at_import(construction).tools
    /\ _instances = registry_at_import(construction).instances
    /\ _init_errors = registry_at_import(construction).init_errors
    /\ registry_log = <<>>

\* WorkflowOrchestrator.__init__, which raises unless the three tools are
\* available; no operation has been called
Init ==
    /\ construction = AllAvailable
    /\ ImportTools
    /\ match_log = <<>>
    /\ current_workflow_stage = "initial"
    /\ conversation_history = <<>>
    /\ product_data = EmptyDict
    /\ market_data = EmptyDict
    /\ category_data = EmptyDict
    /\ final_results = EmptyDict
    /\ categories \in Trees
    /\ calls = 0
    /\ pending = None
    /\ last_call = [op |-> "__init__",
                    user_message |-> <<>>,
                    before |-> before,
                    tool_calls |-> <<>>,
                    gw_calls |-> <<>>,
                    trail |-> <<>>,
                    returned |-> <<>>,
                    raised |-> FALSE]

\* the greeting that start_conversation hands to the completion gateway
initial_greeting ==
    Text("Hi there! I'm Audience Andy. Share a product URL with me, and I'll help you identify target audiences and marketing strategies for it.", <<>>)

\* start_conversation without the assignment of line 171: the history of the
\* previous conversation is kept
start_conversation_keeping_history(c, env) ==
    _get_ai_response([c EXCEPT !.stage = "initial"], initial_greeting, env)

start_conversation(c, env) ==
    _get_ai_response([c EXCEPT !.stage = "initial", !.history = <<>>],
        initial_greeting, env)

\* reset_workflow without the assignment of line 120
reset_workflow_keeping_results(c) ==
    [c EXCEPT !.stage = "initial", !.history = <<>>,
              !.product_data = EmptyDict, !.market_data = EmptyDict,
              !.category_data = EmptyDict]

\* api.py reset_workflow
reset_workflow(c) ==
    [c EXCEPT !.stage = "initial", !.history = <<>>,
              !.product_data = EmptyDict, !.market_data = EmptyDict,
              !.category_data = EmptyDict, !.final_results = EmptyDict]

ProcessMessage ==
    /\ calls < MaxCalls
    /\ UNCHANGED pending
    /\ \E user_message \in Messages, env \in Envs :
           Becomes(process_message(context, user_message, env, categories),
                   "process_message", user_message)

StartConversation ==
    /\ calls < MaxCalls
    /\ UNCHANGED pending
    /\ \E fails \in BOOLEAN :
           Becomes(start_conversation(context,
                       [NominalEnv EXCEPT !.narration_failure =
                                              IF fails THEN 1 ELSE 0]),
                   "start_conversation", <<>>)

ResetWorkflow ==
    /\ calls < MaxCalls
    /\ UNCHANGED pending
    /\ Becomes(reset_workflow(context), "reset_workflow", <<>>)

Next ==
    \/ ProcessMessage
    \/ StartConversation
    \/ ResetWorkflow

Spec == Init /\ [][Next]_vars

----------------------------------------------------------------------------
(* The tool registry on its own, in a process where constructing a tool may   *)
(* fail: the calls of get_tool, execute_tool and get_initialization_status    *)

\* the names asked for: the three tools and a name that no tool has
ToolNames == registered_tools \cup {"translator"}

\* urls the scraper does not accept: an upper-case scheme, a scheme that is
\* not at the start, an example domain without a scheme, example domains in
\* lower and in upper case after a scheme, and no url at all
RejectedUrls ==
    { <<"H","T","T","P","S",":","/","/","s",".","i","o","/","p">>, <<"s","e","e"," ","h","t","t","p",":","/","/","s",".","i","o","/","p">>, <<"t","e","s","t",".","c","o","m","/","x">>,
      <<"h","t","t","p","s",":","/","/","t","e","s","t",".","c","o","m","/","x">>, <<"h","t","t","p",":","/","/","s",".","i","o","/","S","A","M","P","L","E">>, <<>> }

\* The execute_tool calls made: the parameters, what the service the tool
\* uses does during the call, and whether tool.execute raises.
\* FirecrawlerTool.execute calls url.startswith outside its try block
\* (line 86), the other two tools catch every exception themselves.
ToolCalls(tool_name) ==
    CASE tool_name = "firecrawler" ->
            { [parameters |-> [url |-> M_url_review, depth |-> 2],
               env |-> [NominalEnv EXCEPT !.scrape = o], raises |-> FALSE] :
                  o \in ScrapeOutcomes }
            \cup
            { [parameters |-> [url |-> M_hi], env |-> NominalEnv, raises |-> FALSE],
              [parameters |-> [url |-> None, depth |-> 2], env |-> NominalEnv,
               raises |-> TRUE] }
            \cup
            { [parameters |-> [url |-> url],
               env |-> [NominalEnv EXCEPT !.scrape = [raises |-> TRUE]],
               raises |-> FALSE] : url \in RejectedUrls }
      [] tool_name = "serp_analysis" ->
            { [parameters |-> [query |-> <<"G","o"," ","P","r","o">>,
                               results_count |-> 10],
               env |-> [NominalEnv EXCEPT !.search = o], raises |-> FALSE] :
                  o \in SearchOutcomes }
      [] tool_name = "category_tree" ->
            { [parameters |-> [product_description |-> "",
                               mode |-> "explore_toplevel"],
               env |-> NominalEnv, raises |-> FALSE],
              [parameters |-> [product_description |-> "",
                               mode |-> "explore_subcategories",
                               parent_category |-> <<"T","e","c","h">>],
               env |-> NominalEnv, raises |-> FALSE] }
      [] OTHER -> { [parameters |-> EmptyDict, env |-> NominalEnv,
                     raises |-> FALSE] }

\* the registry after a call that left it as the record r, and the log entry
RegistryBecomes(r, entry) ==
    /\ _tools' = r.tools
    /\ _instances' = r.instances
    /\ _init_errors' = r.init_errors
    /\ registry_log' = Append(registry_log, entry)
    /\ UNCHANGED << construction, categories, orchestrator_vars, match_log >>

RegistryInit ==
    /\ construction \in [registered_tools -> UNION {ConstructionOutcomes(n) :
                                                     n \in registered_tools}]
    /\ \A n \in registered_tools : construction[n] \in ConstructionOutcomes(n)
    /\ ImportTools
    /\ match_log = <<>>
    /\ categories \in {TreeSmall, TreeBroken}
    /\ current_workflow_stage = "initial"
    /\ conversation_history = <<>>
    /\ product_data = EmptyDict
    /\ market_data = EmptyDict
    /\ category_data = EmptyDict
    /\ final_results = EmptyDict
    /\ calls = 0
    /\ pending = None
    /\ last_call = [op |-> "__init__"]

GetTool ==
    /\ Len(registry_log) < MaxRegistryCalls
    /\ \E name \in ToolNames :
           LET got == get_tool(registry, name, construction)
           IN  RegistryBecomes(got.registry,
                   [op |-> "get_tool", name |-> name, before |-> registry,
                    instance |-> got.instance,
                    constructions |-> got.constructions])

ExecuteTool ==
    /\ Len(registry_log) < MaxRegistryCalls
    /\ \E tool_name \in ToolNames :
           \E call \in ToolCalls(tool_name) :
               LET done == ToolRegistry_execute_tool(registry, tool_name,
                               call.parameters, construction, call.raises,
                               call.env, categories)
               IN  RegistryBecomes(done.registry,
                       [op |-> "execute_tool", name |-> tool_name,
                        before |-> registry,
                        parameters |-> call.parameters, raises |-> call.raises,
                        env |-> call.env,
                        executed |-> done.executed,
                        scraped |->
                            IF done.executed /\ ~call.raises /\ tool_name = "firecrawler"
                            THEN FirecrawlerTool_run(call.parameters,
                                                     call.env.scrape).scraped
                            ELSE <<>>,
                        result |-> done.result,
                        constructions |-> done.constructions])

GetInitializationStatus ==
    /\ Len(registry_log) < MaxRegistryCalls
    /\ LET got == get_initialization_status(registry, construction)
       IN  RegistryBecomes(got.registry,
               [op |-> "get_initialization_status", before |-> registry,
                status |-> got.status])

RegistryNext ==
    \/ GetTool
    \/ ExecuteTool
    \/ GetInitializationStatus

RegistrySpec == RegistryInit /\ [][RegistryNext]_vars

----------------------------------------------------------------------------
(* The category tool on its own: calls of CategoryTreeTool.execute on a tool  *)
(* that loaded one of a few category trees                                    *)

\* a tree whose categories are not in alphabetical order
TreeMarket ==
    [categories |-> <<
        [name |-> <<"T","e","c","h","n","o","l","o","g","y">>, description |-> <<"T","e","c","h"," ","g","e","a","r">>,
         subcategories |-> <<
            [name |-> <<"L","a","p","t","o","p","s">>, values |-> << <<"G","a","m","i","n","g">> >>],
            [name |-> <<"P","h","o","n","e","s">>, description |-> <<"M","o","b","i","l","e"," ","p","h","o","n","e","s">>,
             values |-> << <<"A","n","d","r","o","i","d">>, <<"i","O","S">> >>],
            [name |-> <<"A","u","d","i","o">>,
             subcategories |-> << [name |-> <<"H","i","F","i">>], [name |-> <<"R","a","d","i","o">>] >>] >>],
        [name |-> <<"H","o","m","e">>,
         subcategories |-> << [name |-> <<"G","a","r","d","e","n">>], [name |-> <<"D","e","c","o","r">>] >>],
        [name |-> <<"A","u","t","o">>, description |-> <<"C","a","r","s">>],
        [name |-> <<"G","e","n","e","r","a","l"," ","G","o","o","d","s">>] >>]

\* a tree with fewer categories than the default limit
TreeShop ==
    [categories |-> <<
        [name |-> <<"S","p","o","r","t","s">>, description |-> <<"O","u","t","d","o","o","r">>],
        [name |-> <<"B","o","o","k","s">>] >>]

MatchTrees == {TreeMarket, TreeShop, TreeEmpty}

\* the product texts of the calls: description, features and keywords
ProductTexts ==
    { [product_description |-> <<>>],
      [product_description |-> <<" "," ">>, product_features |-> <<>>,
       product_keywords |-> <<>>],
      [product_description |-> <<"a","u","t","o"," ","h","o","m","e"," ","t","e","c","h">>],
      [product_description |-> <<"T","e","c","h","n","o","l","o","g","y">>,
       product_features |-> << <<"p","h","o","n","e","s"," ","a","n","d"," ","a","u","d","i","o">> >>,
       product_keywords |-> << <<"h","i","f","i">> >>],
      [product_description |-> <<"G","a","r","d","e","n"," ","d","e","c","o","r"," ","f","o","r"," ","t","h","e"," ","h","o","m","e">>,
       product_keywords |-> << <<"b","o","o","k","s">>, <<"s","p","o","r","t","s">> >>],
      [product_description |-> <<"T","e","c","h"," ","g","e","a","r"," ","a","n","d"," ","c","a","r","s">>,
       product_features |-> << <<"M","o","b","i","l","e"," ","P","h","o","n","e","s"," ","w","i","t","h"," ","A","n","d","r","o","i","d">> >>,
       product_keywords |-> << <<"g","o","o","d","s">>, <<"r","a","d","i","o">> >>],
      [product_description |-> <<"x","y","z">>] }

\* the limits of the calls; a call without a limit gets the default
Limits ==
    { EmptyDict, [max_categories |-> 0], [max_categories |-> 1],
      [max_categories |-> 2], [max_categories |-> 2, max_subcategories |-> 1],
      [max_subcategories |-> 1], [max_subcategories |-> 0] }

\* the dict a | b
merged(a, b) ==
    [k \in (DOMAIN a) \cup (DOMAIN b) |-> IF k \in DOMAIN b THEN b[k] ELSE a[k]]

MatchCalls ==
    { merged(text, limits) : text \in ProductTexts, limits \in Limits }
    \cup { merged(text, [mode |-> "match"]) : text \in ProductTexts }
    \cup { [product_description |-> <<>>, mode |-> "explore_subcategories"] }

\* the calls in an exploration mode: the subcategories of a category that has
\* some, of one that has none, of names no category has, and the top level
ExploreCalls ==
    { [mode |-> "explore_subcategories", parent_category |-> name] :
          name \in { <<"T","e","c","h","n","o","l","o","g","y">>, <<"H","o","m","e">>, <<"A","u","t","o">>, <<"t","e","c","h","n","o","l","o","g","y">>, <<"T","o","y","s">> } }
    \cup { [mode |-> "explore_toplevel"] }

MatchInit ==
    /\ construction = AllAvailable
    /\ ImportTools
    /\ match_log = <<>>
    /\ categories \in MatchTrees
    /\ current_workflow_stage = "initial"
    /\ conversation_history = <<>>
    /\ product_data = EmptyDict
    /\ market_data = EmptyDict
    /\ category_data = EmptyDict
    /\ final_results = EmptyDict
    /\ calls = 0
    /\ pending = None
    /\ last_call = [op |-> "__init__"]

\* one call of CategoryTreeTool.execute in match mode
Match ==
    /\ Len(match_log) < MaxMatchCalls
    /\ \E parameters \in MatchCalls :
           match_log' = Append(match_log,
               [parameters |-> parameters,
                result |-> CategoryTreeTool_execute(parameters, categories)])
    /\ UNCHANGED << categories, orchestrator_vars, registry_vars >>

\* one call of CategoryTreeTool.execute in an exploration mode
Explore ==
    /\ Len(match_log) < MaxMatchCalls
    /\ \E parameters \in ExploreCalls :
           match_log' = Append(match_log,
               [parameters |-> parameters,
                result |-> CategoryTreeTool_execute(parameters, categories)])
    /\ UNCHANGED << categories, orchestrator_vars, registry_vars >>

MatchNext ==
    \/ Match
    \/ Explore

MatchSpec == MatchInit /\ [][MatchNext]_vars

----------------------------------------------------------------------------
(* One conversation followed over more messages: an analysis, its           *)
(* cancellation and the analysis of another page                             *)

\* messages processed in one behaviour of the longer conversation
MaxCycleCalls == 4

CycleMessages == { M_analyze_url, M_hi, M_cancel }

\* what the world does during one of these calls: everything works; the
\* strategy request raises; the second narration request raises; the page has
\* neither title nor content and the search raises
CycleEnvs ==
    { NominalEnv,
      [NominalEnv EXCEPT !.strategies = [raises |-> TRUE]],
      [NominalEnv EXCEPT !.narration_failure = 2],
      [NominalEnv EXCEPT !.scrape = [raises |-> FALSE, value |-> ScrapeBare],
                         !.search = [raises |-> TRUE]] }

CycleMessage ==
    /\ calls < MaxCycleCalls
    /\ UNCHANGED pending
    /\ \E user_message \in CycleMessages, env \in CycleEnvs :
           Becomes(process_message(context, user_message, env, categories),
                   "process_message", user_message)

CycleSpec == Init /\ [][CycleMessage]_vars

----------------------------------------------------------------------------

(* The requests of src/api.py on the one shared orchestrator: a              *)
(* process_message call gives up control at an await, and a reset request    *)
(* can be served before the call goes on                                     *)

\* operations completed in one behaviour of the concurrent requests
MaxRaceCalls == 3

RaceMessages == { M_analyze_url, M_example_url }

RaceEnvs ==
    { NominalEnv,
      [NominalEnv EXCEPT !.scrape = [raises |-> TRUE]],
      [NominalEnv EXCEPT !.search = [raises |-> TRUE]],
      [NominalEnv EXCEPT !.strategies = [raises |-> TRUE]] }

\* a message with a URL arrives in stage initial: process_message appends it
\* to the history, _handle_url_analysis finds the URL and awaits the
\* firecrawler call (lines 211-229 and 297-316); url is the local variable of
\* the suspended call
SuspendAtTool ==
    /\ pending = None
    /\ calls < MaxRaceCalls
    /\ current_workflow_stage = "initial"
    /\ \E user_message \in RaceMessages, env \in RaceEnvs :
           /\ contains_url(user_message)
           /\ truthy(first_url(user_message))
           /\ conversation_history' =
                  Append(conversation_history,
                         [role |-> "user", content |-> user_message])
           /\ pending' = [at |-> "firecrawler",
                          user_message |-> user_message,
                          url |-> first_url(user_message),
                          env |-> env,
                          before |-> before,
                          submitted_at |-> calls]
    /\ UNCHANGED << current_workflow_stage, product_data, market_data,
                    category_data, final_results, calls, last_call,
                    categories, registry_vars, match_log >>

\* the rest of _handle_url_analysis, from the result of the firecrawler call
\* on (lines 316-384), run on the fields as they are when the call goes on
resumed(c, url, env, tree) ==
    except_Exception(
        analyze_url(
            record_tool(c, "firecrawler", [url |-> url, depth |-> 2],
                execute_tool("firecrawler", [url |-> url, depth |-> 2], env, tree)),
            "initial", url,
            execute_tool("firecrawler", [url |-> url, depth |-> 2], env, tree),
            env, tree),
        "url_analysis", "initial",
        Text(<<"I encountered an error while analyzing the product: {e}. ",
               "Please try a different URL or try again later.">>,
             <<"fault">>),
        env)

\* the firecrawler call returns and the suspended call runs to its end
ResumeFromTool ==
    /\ pending # None
    /\ \E c \in { resumed(record_dispatch(context, "initial"), pending.url,
                          pending.env, categories) } :
           /\ current_workflow_stage' = c.stage
           /\ conversation_history' = c.history
           /\ product_data' = c.product_data
           /\ market_data' = c.market_data
           /\ category_data' = c.category_data
           /\ final_results' = c.final_results
           /\ calls' = calls + 1
           /\ last_call' = [op |-> "process_message",
                            user_message |-> pending.user_message,
                            before |-> pending.before,
                            tool_calls |-> c.tool_calls,
                            gw_calls |-> c.gw_calls,
                            trail |-> c.trail,
                            returned |-> c.returned,
                            raised |-> c.exc]
    /\ pending' = None
    /\ UNCHANGED << categories, registry_vars, match_log >>

\* api.py reset_workflow, served whether or not a call is suspended
RaceReset ==
    /\ calls < MaxRaceCalls
    /\ Becomes(reset_workflow(context), "reset_workflow", <<>>)
    /\ UNCHANGED pending

\* a message processed from its arrival to its answer with no other request
\* served in between
RaceMessage ==
    /\ pending = None
    /\ calls < MaxRaceCalls
    /\ \E user_message \in RaceMessages \cup {M_hi}, env \in RaceEnvs :
           Becomes(process_message(context, user_message, env, categories),
                   "process_message", user_message)
    /\ UNCHANGED pending

RaceNext ==
    \/ SuspendAtTool
    \/ ResumeFromTool
    \/ RaceReset
    \/ RaceMessage

RaceSpec == Init /\ [][RaceNext]_vars

----------------------------------------------------------------------------

(* Properties *)

\* the position of a stage in the fixed order
StageIndex(stage) == CHOOSE i \in 1..Len(Stages) : Stages[i] = stage

Successor(stage) == Stages[StageIndex(stage) + 1]

PipelineStages ==
    { "url_analysis", "market_research", "category_mapping",
      "audience_segmentation", "marketing_strategy" }

\* the handlers the latest call ran that were entered in a pipeline stage and
\* did their own work successfully
AdvancedInPipeline ==
    { i \in 1..Len(last_call.trail) :
        /\ last_call.trail[i].outcome = "advanced"
        /\ last_call.trail[i].entry_stage \in PipelineStages }

\* C1 (as amended): a stage handler entered in a pipeline stage that succeeds
\* assigns stage the immediate successor of the stage it was entered in; when
\* the call returns, stage is that successor or a later stage, never an
\* earlier one.
C1_AdvanceToSuccessorOrLater ==
    \A i \in AdvancedInPipeline :
        /\ last_call.trail[i].stage = Successor(last_call.trail[i].entry_stage)
        /\ StageIndex(current_workflow_stage)
               >= StageIndex(Successor(last_call.trail[i].entry_stage))

\* C1 as stated: when the successful handler call returns, stage is the
\* immediate successor of its value before the call.
C1_AsStated ==
    \A i \in AdvancedInPipeline :
        current_workflow_stage = Successor(last_call.trail[i].entry_stage)

\* a call in which a handler entered in a pipeline stage succeeded
C1_Witness ==
    /\ last_call.op = "process_message"
    /\ AdvancedInPipeline # {}
    /\ last_call.before.stage \in PipelineStages

\* the handlers of the latest call in which a fault was raised and caught
Faulted ==
    { i \in 1..Len(last_call.trail) : last_call.trail[i].outcome = "fault" }

\* C2 (as amended): if a fault is raised inside a stage handler,
\* process_message still returns non-null narration text without raising, and
\* stage after the call equals the stage in which the faulting handler was
\* entered.
C2_FaultKeepsHandlerStage ==
    (last_call.op = "process_message" /\ Faulted # {}) =>
        /\ ~last_call.raised
        /\ Len(last_call.returned) >= 1
        /\ \A k \in 1..Len(last_call.returned) : last_call.returned[k] # None
        /\ \A i \in Faulted :
               current_workflow_stage = last_call.trail[i].entry_stage

\* C2 as stated: after a fault inside a handler, stage after process_message
\* equals stage before that call.
C2_AsStated ==
    (last_call.op = "process_message" /\ Faulted # {}) =>
        current_workflow_stage = last_call.before.stage

\* a fault was raised in a handler that an earlier handler of the same call
\* had handed over to
C2_Witness ==
    /\ last_call.op = "process_message"
    /\ \E i \in Faulted : i > 2

\* the messages that are cancel or stop once trimmed and lower-cased
CancelMessages == { M_cancel, M_stop }

FailureOutcomes == { "tool_failed", "precondition_failed", "fault" }

\* the stage handlers a call ran, in the order they ran
HandlersRun(call) ==
    SelectSeq(call.trail, LAMBDA e : e.handler # "process_message")

\* the call ended in the failure of a stage handler
EndedInFailure(call) ==
    /\ call.op = "process_message"
    /\ HandlersRun(call) # <<>>
    /\ HandlersRun(call)[Len(HandlersRun(call))].outcome \in FailureOutcomes

FailedHandler(call) == HandlersRun(call)[Len(HandlersRun(call))].handler

\* C3 as stated: after a stage handler fails, the next message that is not
\* cancel/stop re-executes that same handler before any later stage's handler.
C3_AsStated ==
    [][ ( /\ EndedInFailure(last_call)
          /\ last_call'.op = "process_message"
          /\ last_call'.user_message \notin CancelMessages )
        => ( /\ HandlersRun(last_call') # <<>>
             /\ HandlersRun(last_call')[1].handler = FailedHandler(last_call) )
      ]_vars

\* C3 in the pipeline stages only: a handler entered in a pipeline stage failed
\* and the next message ran some handler; it is never the failed one.
C3_PipelineNeverRetries ==
    [][ ( /\ EndedInFailure(last_call)
          /\ current_workflow_stage \in PipelineStages
          /\ last_call'.op = "process_message"
          /\ last_call'.user_message \notin CancelMessages )
        => ( /\ HandlersRun(last_call') # <<>>
             /\ HandlersRun(last_call')[1].handler # FailedHandler(last_call) )
      ]_vars

\* a whitespace-delimited token of the message starts with "http"
HasHttpToken(user_message) ==
    \E i \in 1..Len(split(user_message)) :
        /\ Len(split(user_message)[i]) >= 4
        /\ SubSeq(split(user_message)[i], 1, 4) = <<"h","t","t","p">>

ToolsCalled(call) == { call.tool_calls[k].tool_name : k \in 1..Len(call.tool_calls) }

\* the scraper, search and category tools were called and every tool call and
\* every completion-gateway call of the latest call succeeded
AllCallsSucceeded ==
    /\ ToolsCalled(last_call) = { "firecrawler", "serp_analysis", "category_tree" }
    /\ \A k \in 1..Len(last_call.tool_calls) : last_call.tool_calls[k].result.success
    /\ \A k \in 1..Len(last_call.gw_calls) : ~last_call.gw_calls[k].raised

FromInitialWithUrl ==
    /\ last_call.op = "process_message"
    /\ last_call.before.stage = "initial"
    /\ HasHttpToken(last_call.user_message)

\* the category tool listed at least one top-level category
SomeCategoryListed ==
    \E k \in 1..Len(last_call.tool_calls) :
        /\ last_call.tool_calls[k].tool_name = "category_tree"
        /\ get(last_call.tool_calls[k].parameters, "mode", "match") = "explore_toplevel"
        /\ last_call.tool_calls[k].result.success
        /\ last_call.tool_calls[k].result.result["categories"] # <<>>

\* the pipeline ran to its end in one call: final stage, order of the tools,
\* and the six narrations returned in the order of the stages
RanToFinalSummary ==
    /\ current_workflow_stage = "final_summary"
    /\ Len(last_call.tool_calls) >= 3
    /\ last_call.tool_calls[1].tool_name = "firecrawler"
    /\ last_call.tool_calls[2].tool_name = "serp_analysis"
    /\ \A k \in 3..Len(last_call.tool_calls) :
           last_call.tool_calls[k].tool_name = "category_tree"
    /\ [k \in 1..Len(HandlersRun(last_call)) |-> HandlersRun(last_call)[k].handler]
           = StageHandlers
    /\ Len(last_call.returned) = Len(StageHandlers)
    /\ Len(conversation_history)
           = last_call.before.history_len + 1 + 2 * Len(StageHandlers)
    /\ \A k \in 1..Len(StageHandlers) :
           LET said == conversation_history[last_call.before.history_len + 2 * k]
               reply == conversation_history[last_call.before.history_len + 2 * k + 1]
           IN  /\ last_call.returned[k] = reply.content
               /\ reply.content.args[2] = said.content

FirstHttpToken(user_message) ==
    LET words == split(user_message)
    IN  words[CHOOSE i \in 1..Len(words) :
                 /\ Len(words[i]) >= 4 /\ SubSeq(words[i], 1, 4) = <<"h","t","t","p">>
                 /\ \A j \in 1..(i - 1) :
                        ~(Len(words[j]) >= 4 /\ SubSeq(words[j], 1, 4) = <<"h","t","t","p">>)]

\* the messages that contain an analysis-intent keyword ("analyze", "review",
\* "check")
KeywordMessages == { M_analyze_url, M_url_review, M_keyword }

\* the four data mappings are as the latest call found them
DataUnchanged ==
    /\ product_data = last_call.before.product_data
    /\ market_data = last_call.before.market_data
    /\ category_data = last_call.before.category_data
    /\ final_results = last_call.before.final_results

\* C5: in stage initial, a message with a token that starts with "http" makes
\* process_message execute the scraper tool with the first such token as url,
\* whether or not the message has an analysis-intent keyword.
C5_UrlStartsPipeline ==
    ( /\ last_call.op = "process_message"
      /\ last_call.before.stage = "initial"
      /\ HasHttpToken(last_call.user_message) )
    => ( /\ Len(last_call.tool_calls) >= 1
         /\ last_call.tool_calls[1].tool_name = "firecrawler"
         /\ last_call.tool_calls[1].parameters["url"]
                = FirstHttpToken(last_call.user_message)
         /\ HandlersRun(last_call)[1].handler = "url_analysis" )

\* a message of two URLs and no keyword reached the scraper
C5_Witness ==
    /\ last_call.op = "process_message"
    /\ last_call.before.stage = "initial"
    /\ last_call.user_message = M_two_urls
    /\ last_call.user_message \notin KeywordMessages
    /\ Len(last_call.tool_calls) >= 1

\* C6: in stage initial, a message without a token that starts with "http"
\* leaves stage initial, invokes no tool and leaves the four data mappings
\* unchanged, with or without an analysis-intent keyword; only history grows.
C6_NoUrlOnlyHistoryGrows ==
    ( /\ last_call.op = "process_message"
      /\ last_call.before.stage = "initial"
      /\ ~HasHttpToken(last_call.user_message) )
    => ( /\ current_workflow_stage = "initial"
         /\ last_call.tool_calls = <<>>
         /\ DataUnchanged
         /\ Len(conversation_history) > last_call.before.history_len )

\* a keyword without a URL arrived in stage initial while data of an earlier
\* analysis was held
C6_Witness ==
    /\ last_call.op = "process_message"
    /\ last_call.before.stage = "initial"
    /\ last_call.user_message = M_keyword
    /\ truthy(last_call.before.product_data)

\* C7: in a pipeline stage, every message other than cancel/stop sets stage to
\* the next stage and immediately executes that stage's handler; the content
\* is not consulted, so a URL or a keyword there starts no new analysis.
C7_AnyMessageContinues ==
    ( /\ last_call.op = "process_message"
      /\ last_call.before.stage \in PipelineStages
      /\ last_call.user_message \notin CancelMessages )
    => ( /\ last_call.trail[1].handler = "process_message"
         /\ last_call.trail[1].stage = Successor(last_call.before.stage)
         /\ HandlersRun(last_call)[1].handler = Successor(last_call.before.stage)
         /\ HandlersRun(last_call)[1].entry_stage = Successor(last_call.before.stage)
         /\ "firecrawler" \notin ToolsCalled(last_call)
         /\ product_data = last_call.before.product_data )

\* a message with a URL and a keyword arrived in a pipeline stage
C7_Witness ==
    /\ last_call.op = "process_message"
    /\ last_call.before.stage \in PipelineStages
    /\ last_call.user_message = M_analyze_url

\* C8: in final_summary, a message with a URL and an analysis-intent keyword
\* empties the four data mappings before the scraper is invoked and restarts
\* at URL analysis; every other message leaves stage final_summary, invokes no
\* tool and leaves the four mappings unchanged.
C8_FinalSummaryRouting ==
    ( /\ last_call.op = "process_message"
      /\ last_call.before.stage = "final_summary" )
    => IF /\ HasHttpToken(last_call.user_message)
          /\ last_call.user_message \in KeywordMessages
       THEN /\ HandlersRun(last_call)[1].handler = "url_analysis"
            /\ Len(last_call.tool_calls) >= 1
            /\ last_call.tool_calls[1].tool_name = "firecrawler"
            /\ last_call.tool_calls[1].data = {}
            /\ last_call.tool_calls[1].stage = "initial"
       ELSE /\ current_workflow_stage = "final_summary"
            /\ last_call.tool_calls = <<>>
            /\ DataUnchanged

\* a new analysis was requested in final_summary while results were held
C8_Witness ==
    /\ last_call.op = "process_message"
    /\ last_call.before.stage = "final_summary"
    /\ last_call.user_message = M_analyze_url
    /\ truthy(last_call.before.final_results)
    /\ Len(last_call.tool_calls) >= 1

\* C9 (as amended): a message that is "cancel" or "stop" once trimmed and
\* lower-cased sets stage to initial in every stage except final_summary,
\* where stage stays final_summary; in every stage it leaves the four data
\* mappings unchanged and invokes no tool.
C9_CancelOutsideFinalSummary ==
    ( /\ last_call.op = "process_message"
      /\ last_call.user_message \in CancelMessages )
    => ( /\ current_workflow_stage =
                IF last_call.before.stage = "final_summary"
                THEN "final_summary" ELSE "initial"
         /\ DataUnchanged
         /\ last_call.tool_calls = <<>> )

\* C9 as stated: cancel/stop sets stage to initial in every stage.
C9_AsStated ==
    ( /\ last_call.op = "process_message"
      /\ last_call.user_message \in CancelMessages )
    => ( /\ current_workflow_stage = "initial"
         /\ DataUnchanged
         /\ last_call.tool_calls = <<>> )

\* " Cancel " arrived in a pipeline stage while product data was held
C9_Witness ==
    /\ last_call.op = "process_message"
    /\ last_call.user_message = M_cancel
    /\ last_call.before.stage \in PipelineStages
    /\ truthy(product_data)
    /\ current_workflow_stage = "initial"

\* the URL of the message names a domain of the scraper's denylist
NamesExampleDomain(user_message) ==
    contains(FirstHttpToken(user_message), <<"t","e","s","t",".","c","o","m">>)

\* C10: if the scraper returns success=false for the URL of a message received
\* in stage initial, as it does for a denylisted domain, then stage afterwards
\* is initial or url_analysis, product data is not written, no search or
\* category tool is invoked and the narration prompt suggests trying a
\* different URL or trying again.
C10_ScraperFailureStops ==
    ( /\ last_call.op = "process_message"
      /\ last_call.before.stage = "initial"
      /\ HasHttpToken(last_call.user_message) )
    => /\ NamesExampleDomain(last_call.user_message)
            => ( /\ Len(last_call.tool_calls) >= 1
                 /\ ~last_call.tool_calls[1].result.success )
       /\ ( /\ Len(last_call.tool_calls) >= 1
            /\ ~last_call.tool_calls[1].result.success )
            => ( /\ current_workflow_stage \in {"initial", "url_analysis"}
                 /\ product_data = last_call.before.product_data
                 /\ ToolsCalled(last_call) = {"firecrawler"}
                 /\ LET said == conversation_history[last_call.before.history_len + 2]
                    IN  /\ said.role = "assistant"
                        /\ said.content.text[Len(said.content.text)]
                               = "Please try a different URL or try again later." )

\* a URL of a denylisted domain arrived in stage initial and the scraper
\* refused it
C10_Witness ==
    /\ last_call.op = "process_message"
    /\ last_call.before.stage = "initial"
    /\ last_call.user_message = M_example_url
    /\ Len(last_call.tool_calls) = 1
    /\ ~last_call.tool_calls[1].result.success

\* C11: after reset_workflow completes, the stage is initial, the history is
\* empty, and product_data, market_data, category_data and final_results are
\* all empty, whatever the state before.
C11_ResetClearsEverything ==
    last_call.op = "reset_workflow" =>
        /\ current_workflow_stage = "initial"
        /\ conversation_history = <<>>
        /\ ~truthy(product_data)
        /\ ~truthy(market_data)
        /\ ~truthy(category_data)
        /\ ~truthy(final_results)

\* a reset of a conversation that had run the pipeline to its end
C11_Witness ==
    /\ last_call.op = "reset_workflow"
    /\ last_call.before.stage = "final_summary"
    /\ last_call.before.history_len > 0
    /\ truthy(last_call.before.product_data)
    /\ truthy(last_call.before.market_data)
    /\ truthy(last_call.before.category_data)
    /\ truthy(last_call.before.final_results)

\* the fixed message _get_ai_response returns when the gateway call raises
IsTroubleMessage(text) ==
    text.text = "I'm having trouble generating a response. Please try again. Error: {e}"

\* C12 (as amended): start_conversation returns the gateway's narration of the
\* greeting, or the fixed trouble message when the gateway call raises; when
\* it returns, the stage is initial and the history holds only what this call
\* appended (the greeting and, when the gateway answered, its narration),
\* nothing of the conversation before.
C12_StartKeepsOnlyGreeting ==
    last_call.op = "start_conversation" =>
        /\ current_workflow_stage = "initial"
        /\ Len(last_call.gw_calls) = 1
        /\ Len(last_call.returned) = 1
        /\ Len(conversation_history) = IF last_call.gw_calls[1].raised THEN 1 ELSE 2
        /\ conversation_history[1] =
               [role |-> "assistant", content |-> initial_greeting]
        /\ IF last_call.gw_calls[1].raised
           THEN IsTroubleMessage(last_call.returned[1])
           ELSE /\ conversation_history[2] =
                       [role |-> "assistant", content |-> last_call.returned[1]]
                /\ last_call.returned[1].args[2] = initial_greeting

\* C12 as stated: the history is empty when start_conversation returns, and
\* what it returns is a narration of the greeting.
C12_AsStated ==
    last_call.op = "start_conversation" =>
        /\ current_workflow_stage = "initial"
        /\ conversation_history = <<>>
        /\ ~IsTroubleMessage(last_call.returned[1])

\* a start in the middle of a conversation, answered by the gateway
C12_Witness ==
    /\ last_call.op = "start_conversation"
    /\ last_call.before.stage # "initial"
    /\ last_call.before.history_len > 2
    /\ ~last_call.gw_calls[1].raised
    /\ Len(conversation_history) = 2

\* the tools were all called and all succeeded
ToolsSucceeded ==
    /\ ToolsCalled(last_call) = { "firecrawler", "serp_analysis", "category_tree" }
    /\ \A k \in 1..Len(last_call.tool_calls) : last_call.tool_calls[k].result.success

\* C13, as stated, and only for calls in which the category tool listed a
\* category, no completion-gateway call raised and no fault was raised inside
\* a handler: after a process_message call in stage initial with a URL where
\* the scraper, search and category tools all succeed, the stage is
\* final_summary, product_data has a non-empty title, and final_results holds
\* at least 3 audience segments and at least 1 marketing strategy, whatever
\* the gateway returned for the reasoning call and the strategy call.
C13_AsStated ==
    ( /\ FromInitialWithUrl
      /\ ToolsSucceeded
      /\ SomeCategoryListed
      /\ \A k \in 1..Len(last_call.gw_calls) : ~last_call.gw_calls[k].raised
      /\ Faulted = {} )
    => /\ current_workflow_stage = "final_summary"
       /\ truthy(get(product_data, "title", <<>>))
       /\ Len(get(final_results, "audience_segments", <<>>)) >= 3
       /\ Len(get(final_results, "marketing_strategies", <<>>)) >= 1

\* the execute_tool calls made on the registry so far
Executions == { i \in 1..Len(registry_log) : registry_log[i].op = "execute_tool" }

\* the get_tool and execute_tool calls made on the registry so far
Lookups ==
    { i \in 1..Len(registry_log) : registry_log[i].op \in {"get_tool", "execute_tool"} }

\* the registered tools whose construction did not give a usable instance
FailedTools == { n \in registered_tools : construction[n].kind # "available" }

\* the value is a ToolResult
IsToolResult(value) ==
    /\ DOMAIN value = {"success", "result", "error", "tool_name"}
    /\ value.success \in BOOLEAN

\* C14: execute_tool never raises to its caller: for every tool name
\* (registered, unregistered, or registered but failed at construction) and
\* whether the tool's execute returns or raises, it returns a ToolResult; for
\* a tool whose construction failed it returns success = false with an error,
\* while for every tool that is available it still invokes that tool and
\* returns the tool's result, whatever happened to the other tools.
C14_ExecuteToolIsolated ==
    \A i \in Executions :
        LET call == registry_log[i]
        IN  /\ IsToolResult(call.result)
            /\ call.result.tool_name = call.name
            /\ IF call.name \in registered_tools \ FailedTools
               THEN /\ call.executed
                    /\ IF call.raises
                       THEN ~call.result.success /\ call.result.error # None
                       ELSE call.result =
                                Tool_execute(
                                    instance_of(call.name, construction[call.name]),
                                    call.parameters, call.env, categories)
               ELSE /\ ~call.executed
                    /\ ~call.result.success
                    /\ call.result.error # None

\* execute_tool refused a tool whose construction had failed and then ran
\* another tool, which succeeded
C14_Witness ==
    /\ Len(registry_log) = 2
    /\ Executions = {1, 2}
    /\ registry_log[1].name \in FailedTools
    /\ ~registry_log[1].result.success
    /\ registry_log[2].name # registry_log[1].name
    /\ registry_log[2].executed
    /\ registry_log[2].result.success

\* the initialization reason recorded when the tool was found unavailable
RecordedReason(name) == construction[name].initialization_error

\* C15, as stated: for a tool found unavailable at construction, every
\* execute_tool call returns success = false with an error that carries the
\* initialization reason recorded when the tool failed to construct, and the
\* recorded reason is never replaced by another message.
C15_AsStated ==
    \A i \in Executions :
        LET call == registry_log[i]
        IN  (call.name \in registered_tools /\ construction[call.name].kind = "unavailable")
            => /\ ~call.result.success
               /\ Len(call.result.error.args) = 2
               /\ call.result.error.args[2] = RecordedReason(call.name)
               /\ call.name \in DOMAIN _init_errors
               /\ _init_errors[call.name] = RecordedReason(call.name)

\* a call in the log returned no instance
NoInstance(call) ==
    IF call.op = "get_tool" THEN call.instance = None ELSE ~call.executed

\* C16: once get_tool has returned no instance for a registered tool whose
\* construction failed or left it unavailable, every later get_tool for that
\* name returns no instance as well, every later execute_tool for it returns
\* success = false, and neither call constructs the tool again.
C16_UnavailableStaysUnavailable ==
    \A i, j \in Lookups :
        ( /\ i < j
          /\ registry_log[i].name \in FailedTools
          /\ registry_log[j].name = registry_log[i].name
          /\ NoInstance(registry_log[i]) )
        => /\ NoInstance(registry_log[j])
           /\ registry_log[j].op = "execute_tool" => ~registry_log[j].result.success
           /\ registry_log[j].constructions = 0

\* get_tool returned no instance of a tool that was found unavailable at
\* import, and execute_tool was then called for it
C16_Witness ==
    /\ Len(registry_log) = 2
    /\ registry_log[1].op = "get_tool"
    /\ registry_log[1].name \in FailedTools
    /\ construction[registry_log[1].name].kind = "unavailable"
    /\ registry_log[1].instance = None
    /\ registry_log[2].op = "execute_tool"
    /\ registry_log[2].name = registry_log[1].name

\* C17, as stated: every tool whose registration was attempted, one whose
\* construction left it unavailable included, is in the name-to-class index
\* and is a key of what get_initialization_status returns, mapped to
\* "initialized" exactly when a usable instance exists and otherwise to its
\* recorded error.
C17_AsStated ==
    \A n \in registered_tools :
        construction[n].kind \in {"available", "unavailable"}
        => /\ n \in DOMAIN _tools
           /\ \A i \in 1..Len(registry_log) :
                  registry_log[i].op = "get_initialization_status"
                  => /\ n \in DOMAIN registry_log[i].status
                     /\ registry_log[i].status[n] =
                            IF construction[n].kind = "available"
                            THEN Text("initialized", <<>>)
                            ELSE _init_errors[n]

\* C18: every ToolResult that execute_tool returns, its own or the one the
\* tool's execute returned, has no error when success is true and no result
\* when success is false.
C18_ToolResultShape ==
    \A i \in Executions :
        /\ registry_log[i].result.success => registry_log[i].result.error = None
        /\ ~registry_log[i].result.success => registry_log[i].result.result = None

\* a tool's execute raised and the registry returned the failure, after a
\* call in which a tool had returned a result
C18_Witness ==
    /\ Len(registry_log) = 2
    /\ Executions = {1, 2}
    /\ registry_log[1].result.success
    /\ registry_log[1].result.result # None
    /\ registry_log[2].executed
    /\ registry_log[2].raises
    /\ ~registry_log[2].result.success

----------------------------------------------------------------------------
(* C19, C20: the match mode of the category tool (MatchSpec) *)

\* the match calls whose product text is empty: a description that is empty
\* or only whitespace, no features and no keywords
MatchModeCalls == { i \in 1..Len(match_log) : ~explores(match_log[i].parameters) }

NoInputCalls ==
    { i \in MatchModeCalls :
        no_input(get(match_log[i].parameters, "product_description", <<>>),
                 get(match_log[i].parameters, "product_features", <<>>),
                 get(match_log[i].parameters, "product_keywords", <<>>)) }

TopLevel == get(categories, "categories", <<>>)

Min(a, b) == IF a < b THEN a ELSE b

\* names in ascending order as strings compare
Ascending(matched) ==
    \A k \in 1..(Len(matched) - 1) :
        \/ matched[k].category = matched[k + 1].category
        \/ str_less(matched[k].category, matched[k + 1].category)

\* C19: a match call with an empty or whitespace-only description, no
\* features and no keywords succeeds and returns exactly
\* min(max_categories, number of top-level categories) categories of the
\* tree, in ascending alphabetical order of name, each with an empty
\* subcategory list, whatever tree the tool loaded.
C19_NoInputListsCategories ==
    \A i \in NoInputCalls :
        /\ match_log[i].result.success
        /\ Len(match_log[i].result.result.matched_categories)
               = Min(get(match_log[i].parameters, "max_categories", 3), Len(TopLevel))
        /\ Ascending(match_log[i].result.result.matched_categories)
        /\ \A k \in 1..Len(match_log[i].result.result.matched_categories) :
               /\ match_log[i].result.result.matched_categories[k].subcategories = <<>>
               /\ \E j \in 1..Len(TopLevel) :
                      TopLevel[j].name
                          = match_log[i].result.result.matched_categories[k].category

\* a call with a whitespace-only description on a tree that is not in
\* alphabetical order and has more categories than the limit of the call
C19_Witness ==
    \E i \in NoInputCalls :
        /\ match_log[i].parameters.product_description # <<>>
        /\ categories = TreeMarket
        /\ "max_categories" \in DOMAIN match_log[i].parameters
        /\ match_log[i].parameters.max_categories = 2
        /\ Len(match_log[i].result.result.matched_categories) = 2
        /\ match_log[i].result.result.matched_categories[1].category = <<"A","u","t","o">>

\* the inputs of a match call, with the defaults execute gives absent ones
Inputs(parameters) ==
    << get(parameters, "product_description", <<>>),
       get(parameters, "product_features", <<>>),
       get(parameters, "product_keywords", <<>>),
       get(parameters, "max_categories", 3),
       get(parameters, "max_subcategories", 5) >>

\* the match calls that score the categories: the product text is not empty
ScoringCalls == MatchModeCalls \ NoInputCalls

Matched(i) == match_log[i].result.result.matched_categories

\* the place of the node called name in a list of the tree
Position(nodes, name) == CHOOSE j \in 1..Len(nodes) : nodes[j].name = name

\* subcategories of equal score are in the order of the tree, at every level
RECURSIVE SubcategoryTiesInTreeOrder(_, _)
SubcategoryTiesInTreeOrder(matched, nodes) ==
    /\ \A k \in 1..Len(matched) : \A l \in (k + 1)..Len(matched) :
           matched[k].score = matched[l].score
               => Position(nodes, matched[k].name) < Position(nodes, matched[l].name)
    /\ \A k \in 1..Len(matched) :
           "subcategories" \in DOMAIN matched[k]
               => SubcategoryTiesInTreeOrder(matched[k].subcategories,
                      nodes[Position(nodes, matched[k].name)].subcategories)

\* categories of equal score are in the order of the tree
TiesInTreeOrder(matched) ==
    \A k \in 1..Len(matched) : \A l \in (k + 1)..Len(matched) :
        matched[k].score = matched[l].score
            => Position(TopLevel, matched[k].category)
                   < Position(TopLevel, matched[l].category)

\* the calls whose categories all come from the tree
FromTree(i) ==
    \A k \in 1..Len(Matched(i)) :
        \E j \in 1..Len(TopLevel) : TopLevel[j].name = Matched(i)[k].category

SameInputsSameResult ==
    \A i, j \in MatchModeCalls :
        Inputs(match_log[i].parameters) = Inputs(match_log[j].parameters)
            => match_log[i].result = match_log[j].result

\* C20: two match calls with identical description, features, keywords,
\* limits and category tree return identical results, and when the product
\* text is not empty the categories of equal score, and the subcategories of
\* equal score at every level, appear in the order the tree has them.
C20_ScoredTiesKeepTreeOrder ==
    /\ SameInputsSameResult
    /\ \A i \in ScoringCalls :
           /\ match_log[i].result.success
           /\ FromTree(i) =>
                  /\ TiesInTreeOrder(Matched(i))
                  /\ \A k \in 1..Len(Matched(i)) :
                         SubcategoryTiesInTreeOrder(Matched(i)[k].subcategories,
                             get(TopLevel[Position(TopLevel, Matched(i)[k].category)],
                                 "subcategories", <<>>))

\* C20 as stated: in every match call, also one without product text, the
\* categories of equal score appear in the order the tree has them.
C20_AsStated ==
    /\ SameInputsSameResult
    /\ \A i \in MatchModeCalls :
           match_log[i].result.success /\ FromTree(i) => TiesInTreeOrder(Matched(i))

\* two calls given the same inputs in different parameter dicts, whose text
\* gives two categories the same score, the first of the tree scoring less
C20_Witness ==
    /\ MatchModeCalls = {1, 2}
    /\ match_log[1].parameters # match_log[2].parameters
    /\ Inputs(match_log[1].parameters) = Inputs(match_log[2].parameters)
    /\ 1 \in ScoringCalls
    /\ categories = TreeMarket
    /\ Len(Matched(1)) = 3
    /\ Matched(1)[1].score = Matched(1)[2].score
    /\ Matched(1)[3].category = TopLevel[1].name
----------------------------------------------------------------------------
(* C21: the segments of a match result (MatchSpec) *)

Segments(i) == match_log[i].result.result.audience_segments

\* the segments made from the matched categories of call i
FromCategories(i) == specific_segments(Matched(i), 1)

\* C21: the segments returned with any list of matched categories, the empty
\* list and a single category without subcategories included, are at least
\* 3; when the categories gave fewer than 3 segments, the result is those
\* segments followed by exactly the three general segments (value-conscious,
\* convenience, quality-focused), and otherwise it is those segments alone.
C21_AtLeastThreeSegments ==
    \A i \in MatchModeCalls :
        /\ match_log[i].result.success
        /\ Len(Segments(i)) >= 3
        /\ IF Len(FromCategories(i)) < 3
           THEN /\ Len(Segments(i)) = Len(FromCategories(i)) + 3
                /\ SubSeq(Segments(i), 1, Len(FromCategories(i))) = FromCategories(i)
                /\ SubSeq(Segments(i), Len(FromCategories(i)) + 1, Len(Segments(i)))
                       = general_segments
                /\ general_segments[1].name = "Value-Conscious Shoppers"
                /\ general_segments[2].name = "Convenience Shoppers"
                /\ general_segments[3].name = "Quality-Focused Consumers"
           ELSE Segments(i) = FromCategories(i)

\* one call matched no category and another matched a single category
\* without subcategories
C21_Witness ==
    /\ MatchModeCalls = {1, 2}
    /\ Matched(1) = <<>>
    /\ Len(Segments(1)) = 3
    /\ Len(Matched(2)) = 1
    /\ Matched(2)[1].subcategories = <<>>
    /\ Len(Segments(2)) = 4
----------------------------------------------------------------------------
(* C22: the explore_subcategories mode of the category tool (MatchSpec) *)

\* the calls served by the explore_subcategories mode
SubcategoryCalls ==
    { i \in 1..Len(match_log) :
        /\ explores(match_log[i].parameters)
        /\ match_log[i].parameters.mode = "explore_subcategories" }

\* the top-level categories that have exactly this name
Named(name) == { j \in 1..Len(TopLevel) : TopLevel[j].name = name }

\* the direct subcategories of the first category of this name in the tree
DirectSubcategories(name) ==
    get(TopLevel[CHOOSE j \in Named(name) : \A k \in Named(name) : j <= k],
        "subcategories", <<>>)

NamesAscend(listed) ==
    \A k \in 1..(Len(listed) - 1) :
        \/ listed[k].name = listed[k + 1].name
        \/ str_less(listed[k].name, listed[k + 1].name)

\* C22: a call in explore_subcategories mode with a non-empty parent_category
\* succeeds; it returns the direct subcategories of the top-level category of
\* exactly that name, in ascending alphabetical order of name, and an empty
\* sequence when no top-level category has exactly that name.
C22_ExploreSubcategories ==
    \A i \in SubcategoryCalls :
        /\ match_log[i].result.success
        /\ IF Named(match_log[i].parameters.parent_category) = {}
           THEN match_log[i].result.result.subcategories = <<>>
           ELSE /\ Len(match_log[i].result.result.subcategories)
                       = Len(DirectSubcategories(match_log[i].parameters.parent_category))
                /\ \A k \in 1..Len(DirectSubcategories(match_log[i].parameters.parent_category)) :
                       \E l \in 1..Len(match_log[i].result.result.subcategories) :
                           match_log[i].result.result.subcategories[l].name
                               = DirectSubcategories(match_log[i].parameters.parent_category)[k].name
                /\ NamesAscend(match_log[i].result.result.subcategories)

\* the subcategories of a category whose tree order is not alphabetical were
\* asked for, and so were those of a name that differs from it only in case
C22_Witness ==
    /\ SubcategoryCalls = {1, 2}
    /\ categories = TreeMarket
    /\ match_log[1].parameters.parent_category = <<"T","e","c","h","n","o","l","o","g","y">>
    /\ Len(match_log[1].result.result.subcategories) = 3
    /\ match_log[1].result.result.subcategories[1].name = <<"A","u","d","i","o">>
    /\ match_log[2].parameters.parent_category = <<"t","e","c","h","n","o","l","o","g","y">>
    /\ match_log[2].result.result.subcategories = <<>>
----------------------------------------------------------------------------
(* C23: the url checks of the scraper (RegistrySpec) *)

\* the calls in which FirecrawlerTool.execute ran on a url that is a string
ScraperRuns ==
    { i \in Executions :
        /\ registry_log[i].name = "firecrawler"
        /\ registry_log[i].executed
        /\ ~registry_log[i].raises }

UrlOf(i) == get(registry_log[i].parameters, "url", <<>>)

HasScheme(url) ==
    \/ Len(url) >= 7 /\ SubSeq(url, 1, 7) = <<"h","t","t","p",":","/","/">>
    \/ Len(url) >= 8 /\ SubSeq(url, 1, 8) = <<"h","t","t","p","s",":","/","/">>

Denylist ==
    { <<"e","x","a","m","p","l","e",".","c","o","m">>, <<"e","x","a","m","p","l","e","h","e","a","d","p","h","o","n","e","s",".","c","o","m">>, <<"d","o","m","a","i","n",".","c","o","m">>, <<"e","x","a","m","p","l","e",".","o","r","g">>,
      <<"p","l","a","c","e","h","o","l","d","e","r">>, <<"s","a","m","p","l","e">>, <<"t","e","s","t",".","c","o","m">> }

NamesPlaceholder(url) ==
    \E d \in Denylist : \E k \in 0..(Len(url) - Len(d)) :
        lower(SubSeq(url, k + 1, k + Len(d))) = d

\* C23: for every url that starts with neither "http://" nor "https://" the
\* scraper returns success = false with the invalid-format error, also when
\* the url names a denylisted placeholder; for every url with a scheme that
\* contains a denylisted placeholder string it returns success = false with
\* the fictional-domain error; in both cases no request goes to the scrape
\* service.
C23_UrlChecksBeforeScrape ==
    \A i \in ScraperRuns :
        /\ ~HasScheme(UrlOf(i)) =>
              /\ ~registry_log[i].result.success
              /\ registry_log[i].result.error.text
                    = "Invalid URL format. Please provide a URL starting with http:// or https://."
              /\ registry_log[i].scraped = <<>>
        /\ HasScheme(UrlOf(i)) /\ NamesPlaceholder(UrlOf(i)) =>
              /\ ~registry_log[i].result.success
              /\ registry_log[i].result.error.text
                    = "The URL appears to be a fictional or example domain. Please provide a real product URL."
              /\ registry_log[i].scraped = <<>>

\* a url without a scheme that names a placeholder was refused for its
\* format, and one with a scheme for its placeholder, the service failing
\* whenever it is called
C23_Witness ==
    /\ ScraperRuns = {1, 2}
    /\ UrlOf(1) = <<"t","e","s","t",".","c","o","m","/","x">>
    /\ UrlOf(2) = <<"h","t","t","p",":","/","/","s",".","i","o","/","S","A","M","P","L","E">>
    /\ registry_log[1].env.scrape.raises
    /\ registry_log[2].env.scrape.raises
    /\ registry_log[1].scraped = <<>>
    /\ registry_log[2].scraped = <<>>

\* the stage handler a message ran first: it found the data the orchestrator
\* held before the message
EnteredFirst == HandlersRun(last_call)[1]

\* the data a handler is said to require was missing when the message came
MissingUpstream(handler) ==
    CASE handler = "market_research" ->
             ~truthy(last_call.before.product_data)
      [] handler = "category_mapping" ->
             \/ ~truthy(last_call.before.product_data)
             \/ ~truthy(last_call.before.market_data)
      [] handler = "audience_segmentation" ->
             ~truthy(last_call.before.category_data)
      [] handler = "marketing_strategy" ->
             ~truthy(get(last_call.before.final_results, "audience_segments", <<>>))
      [] handler = "final_summary" ->
             \/ ~truthy(last_call.before.product_data)
             \/ ~truthy(last_call.before.final_results)
      [] OTHER -> FALSE

\* the handler answered with a narrated error and did nothing else: no tool
\* call, no gateway call but narrations, no later handler, the stage it was
\* entered in left as it was
OnlyNarratedAnError ==
    /\ EnteredFirst.outcome = "precondition_failed"
    /\ Len(HandlersRun(last_call)) = 1
    /\ last_call.tool_calls = <<>>
    /\ \A k \in 1..Len(last_call.gw_calls) :
           last_call.gw_calls[k].purpose = "narration"
    /\ ~last_call.raised
    /\ Len(last_call.returned) = 1
    /\ EnteredFirst.stage = EnteredFirst.entry_stage
    /\ current_workflow_stage = EnteredFirst.entry_stage

EnteredWithoutUpstream(handlers) ==
    /\ last_call.op = "process_message"
    /\ HandlersRun(last_call) # <<>>
    /\ EnteredFirst.handler \in handlers
    /\ MissingUpstream(EnteredFirst.handler)

\* C24 as stated: every pipeline-stage handler entered while its required
\* upstream data is missing returns a narrated error, makes no tool or
\* strategy-generation call and does not advance the stage.
C24_AsStated ==
    EnteredWithoutUpstream({"market_research", "category_mapping",
                            "audience_segmentation", "marketing_strategy",
                            "final_summary"})
        => OnlyNarratedAnError

\* C24 for the handlers that do check: market research, category mapping and
\* audience segmentation entered without their upstream data only narrate an
\* error and leave the stage they were entered in.
C24_CheckingHandlers ==
    EnteredWithoutUpstream({"market_research", "category_mapping",
                            "audience_segmentation"})
        => OnlyNarratedAnError

\* category mapping is entered without market data and only narrates an error
C24_Witness ==
    /\ EnteredWithoutUpstream({"category_mapping"})
    /\ OnlyNarratedAnError

\* the calls of the latest message on a tool that came back successful
Succeeded(tool_name) ==
    { k \in 1..Len(last_call.tool_calls) :
        /\ last_call.tool_calls[k].tool_name = tool_name
        /\ last_call.tool_calls[k].result.success }

\* what the handler did with the tool's result
OutcomeOf(handler) ==
    { HandlersRun(last_call)[i].outcome : i \in
        { j \in 1..Len(HandlersRun(last_call)) :
            HandlersRun(last_call)[j].handler = handler } }

\* the handler went on to the next stage, unless a fault was raised in it
WentOn(handler, next_handler) ==
    /\ OutcomeOf(handler) \subseteq {"advanced", "fault"}
    /\ "advanced" \in OutcomeOf(handler) =>
           /\ OutcomeOf(next_handler) # {}
           /\ "precondition_failed" \notin OutcomeOf(next_handler)

\* the description stored is the tool's, or the placeholder naming the URL
DescriptionStored(k) ==
    IF last_call.tool_calls[k].result.result["description"] = ""
    THEN product_data["description"] =
             Text("Online product at {url}",
                  <<last_call.tool_calls[k].parameters["url"]>>)
    ELSE product_data["description"] =
             last_call.tool_calls[k].result.result["description"]

\* C25: whenever the scraper succeeds, the product data stored has a non-empty
\* title, non-empty features and a non-empty description, whatever the tool
\* left out; whenever the search tool succeeds, the market data stored has
\* non-empty competitors and keywords; and a successful result never ends in
\* an error narration or stops the pipeline.
C25_PlaceholdersForMissingFields ==
    last_call.op = "process_message" =>
        /\ \A k \in Succeeded("firecrawler") :
               /\ get(product_data, "title", <<>>) # <<>>
               /\ get(product_data, "features", <<>>) # <<>>
               /\ "description" \in DOMAIN product_data
               /\ DescriptionStored(k)
               /\ WentOn("url_analysis", "market_research")
        /\ \A k \in Succeeded("serp_analysis") :
               /\ get(market_data, "competitors", <<>>) # <<>>
               /\ get(market_data, "keywords", <<>>) # <<>>
               /\ WentOn("market_research", "category_mapping")

\* the scraper succeeded on a page without title, features or description, the
\* search on results without competitors or keywords, and the pipeline went on
C25_Witness ==
    /\ last_call.op = "process_message"
    /\ \/ \E k \in Succeeded("firecrawler") :
              /\ last_call.tool_calls[k].result.result["title"] = <<>>
              /\ last_call.tool_calls[k].result.result["features"] = <<>>
              /\ last_call.tool_calls[k].result.result["description"] = ""
              /\ product_data["title"] = <<"p">>
       \/ \E k \in Succeeded("serp_analysis") :
              /\ last_call.tool_calls[k].result.result["competitors"] = <<>>
              /\ last_call.tool_calls[k].result.result["keywords"] = <<>>
    /\ "completed" \in OutcomeOf("final_summary")

\* the combined reasoning calls of the latest message
AnalysisRequests ==
    { k \in 1..Len(last_call.gw_calls) :
        last_call.gw_calls[k].purpose = "analysis" }

\* the reasoning call raised, or returned text that is not JSON
Failed(answer) == answer.raises \/ ~answer.parsable

\* the reasoning call returned no categories, or no segments
Lacks(answer, shape) == ~Failed(answer) /\ answer.shape = shape

\* the first top-level category the tool listed in the latest message
DefaultCategory ==
    LET k == CHOOSE k \in 1..Len(last_call.tool_calls) :
                 /\ last_call.tool_calls[k].tool_name = "category_tree"
                 /\ last_call.tool_calls[k].parameters["mode"] = "explore_toplevel"
    IN  last_call.tool_calls[k].result.result["categories"][1].name

OneDefaultCategory ==
    /\ Len(category_data["matched_categories"]) = 1
    /\ category_data["matched_categories"][1].category = DefaultCategory

TwoDefaultSegments ==
    /\ Len(category_data["audience_segments"]) = 2
    /\ category_data["audience_segments"][1].targeting_criteria =
           <<[type |-> "interest",
              category |-> category_data["matched_categories"][1].category]>>
    /\ category_data["audience_segments"][2].name = "Value Shoppers"

\* C26: if the combined reasoning call of the category_mapping handler raises,
\* returns text that is not JSON, or returns no selected categories or no
\* audience segments, the handler puts the default category and the two
\* default segments in place of what is missing, stores category data with at
\* least one matched category and at least one audience segment, and the stage
\* becomes audience_segmentation; no error is narrated for it.  (A call in
\* which a statement of a handler raises for another reason is left aside.)
C26_ReasoningFaultRecovered ==
    last_call.op = "process_message" =>
        \A k \in AnalysisRequests :
            LET answer == last_call.gw_calls[k].answer
            IN  ( /\ \/ Failed(answer)
                     \/ Lacks(answer, "no_categories")
                     \/ Lacks(answer, "no_segments")
                  /\ last_call.gw_calls[k].fault = NoFault ) =>
                    /\ OutcomeOf("category_mapping") = {"advanced"}
                    /\ \A i \in 1..Len(HandlersRun(last_call)) :
                           HandlersRun(last_call)[i].handler = "category_mapping" =>
                               HandlersRun(last_call)[i].stage = "audience_segmentation"
                    /\ Len(category_data["matched_categories"]) >= 1
                    /\ category_data["audience_segments"] # <<>>
                    /\ Failed(answer) => OneDefaultCategory /\ TwoDefaultSegments
                    /\ Lacks(answer, "no_categories") => OneDefaultCategory
                    /\ Lacks(answer, "no_segments") => TwoDefaultSegments
                    /\ OutcomeOf("audience_segmentation") = {"advanced"}

\* the reasoning call raised and the pipeline went on to its end with the
\* default category and segments
C26_Witness ==
    /\ last_call.op = "process_message"
    /\ \E k \in AnalysisRequests : last_call.gw_calls[k].answer.raises
    /\ OneDefaultCategory
    /\ TwoDefaultSegments
    /\ "completed" \in OutcomeOf("final_summary")

\* the narration requests of a call, in the order they were made
Narrations(call) ==
    SelectSeq(call.gw_calls, LAMBDA request : request.purpose = "narration")

\* every stage handler makes one narration request, of its results or of its
\* failure, before the next handler runs: the k-th narration of a message that
\* ran handlers is the k-th handler's
OneNarrationEach ==
    (last_call.op = "process_message" /\ HandlersRun(last_call) # <<>>) =>
        Len(Narrations(last_call)) = Len(HandlersRun(last_call))

\* the handlers of the latest message that narrated their results
NarratedResults ==
    { k \in 1..Len(HandlersRun(last_call)) :
        HandlersRun(last_call)[k].outcome \in {"advanced", "completed"} }

\* C27 as stated: each stage's results are narrated with that stage's own
\* instruction template, from url_analysis through final_summary, and the
\* initial template is used only for conversational turns in stage initial.
C27_AsStated ==
    last_call.op = "process_message" =>
        /\ OneNarrationEach
        /\ \A k \in NarratedResults :
               Narrations(last_call)[k].template = HandlersRun(last_call)[k].handler
        /\ \A k \in 1..Len(Narrations(last_call)) :
               Narrations(last_call)[k].template = "initial" =>
                   HandlersRun(last_call) = <<>>

\* C27 for the stages after url_analysis: the results of market research,
\* category mapping, audience segmentation, marketing strategy and the final
\* summary are each narrated with the template of their own stage.
C27_LaterStagesOwnTemplate ==
    last_call.op = "process_message" =>
        /\ OneNarrationEach
        /\ \A k \in NarratedResults :
               HandlersRun(last_call)[k].handler # "url_analysis" =>
                   Narrations(last_call)[k].template =
                       HandlersRun(last_call)[k].handler

\* the results of the URL analysis are narrated with the initial template
C27_UrlAnalysisNarratedAsInitial ==
    last_call.op = "process_message" =>
        \A k \in NarratedResults :
            HandlersRun(last_call)[k].handler = "url_analysis" =>
                Narrations(last_call)[k].template = "initial"

\* a message ran the six handlers and each narrated its results
C27_Witness ==
    /\ last_call.op = "process_message"
    /\ Cardinality(NarratedResults) = Len(StageHandlers)

\* the history before a step is kept by it: every entry is still there, where it
\* was and as it was
HistoryKept ==
    /\ Len(conversation_history') >= Len(conversation_history)
    /\ SubSeq(conversation_history', 1, Len(conversation_history)) =
           conversation_history

\* where in the history the text narrated by the k-th narration request of the
\* latest message was appended: after the user's message, the texts narrated
\* before it and the completions that came back for them
NarratedAt(k) ==
    last_call.before.history_len + 1 + k
        + Cardinality({ j \in 1..(k - 1) : ~Narrations(last_call)[j].raised })

\* the k-th narration request carries, after the instruction, the last ten
\* entries at most of the history as it was when the request was made, the
\* narrated text being the last of them
CarriesWindow(k) ==
    LET carried == Tail(Narrations(last_call)[k].messages)
        at == NarratedAt(k)
    IN  /\ Len(carried) = (IF at < 10 THEN at ELSE 10)
        /\ at <= Len(conversation_history)
        /\ carried = SubSeq(conversation_history, at - Len(carried) + 1, at)
        /\ carried[Len(carried)].role = "assistant"
        /\ ~Narrations(last_call)[k].raised =>
               conversation_history[at + 1] =
                   [role |-> "assistant",
                    content |-> Text("{completion}",
                                    <<Narrations(last_call)[k].template,
                                      carried[Len(carried)].content>>)]

WindowsCarried ==
    \A k \in 1..Len(Narrations(last_call)) : CarriesWindow(k)

\* C28: the history is append-only across process_message calls (every entry
\* present before a call is present after it at the same position and
\* unchanged; only start_conversation and reset_workflow empty it), and every
\* narration request to the gateway carries at most the last ten history
\* entries, the last of which is the text being narrated.
C28_HistoryAppendOnly ==
    [][ /\ last_call'.op \notin {"start_conversation", "reset_workflow"} =>
            HistoryKept
        /\ last_call'.op = "process_message" => WindowsCarried' ]_vars

\* a message came to a history that was not empty, and one of its narration
\* requests was made when the history was longer than ten entries
C28_Witness ==
    /\ last_call.op = "process_message"
    /\ last_call.before.history_len > 0
    /\ \E k \in 1..Len(Narrations(last_call)) :
           /\ NarratedAt(k) > 10
           /\ Len(Narrations(last_call)[k].messages) = 11

\* the text a match call scores the categories against
TextOf(i) ==
    all_text_of(Inputs(match_log[i].parameters)[1],
                Inputs(match_log[i].parameters)[2],
                Inputs(match_log[i].parameters)[3])

\* how many of the words occur in the text
Occurring(words, text) ==
    Cardinality({ k \in 1..Len(words) : contains(text, words[k]) })

\* the keywords the fixed table associates with a category name
Associated(name) ==
    LET entries == { k \in 1..Len(keyword_map) : keyword_map[k][1] = name }
    IN  IF entries = {} THEN <<>> ELSE keyword_map[CHOOSE k \in entries : TRUE][2]

\* 10 for the full lower-cased name, 3 for each name word longer than three
\* characters, 5 for the description, 2 for each associated keyword, each when
\* it occurs in the text; the description is looked for as a whole and, the
\* text being lower-cased, without regard to case
PointsFor(category, text) ==
      (IF contains(text, lower(category["name"])) THEN 10 ELSE 0)
    + 3 * Occurring(SelectSeq(split(lower(category["name"])),
                              LAMBDA word : Len(word) > 3), text)
    + (IF "description" \in DOMAIN category
       THEN (IF contains(text, lower(category["description"])) THEN 5 ELSE 0)
       ELSE 0)
    + 2 * Occurring(Associated(category["name"]), text)

NamedGenerally(category) ==
    \E word \in { <<"g","e","n","e","r","a","l">>, <<"p","r","o","d","u","c","t">>, <<"c","o","n","s","u","m","e","r">> } :
        contains(lower(category["name"]), word)

ScoreStated(category, text) ==
    IF PointsFor(category, text) = 0 /\ NamedGenerally(category)
    THEN 1 ELSE PointsFor(category, text)

\* the top-level categories whose stated score for the text is above 0
Scoring(text) ==
    { j \in 1..Len(TopLevel) : ScoreStated(TopLevel[j], text) > 0 }

\* C29: for a product text that is not empty, the score returned for a
\* top-level category is 10 if its full lower-cased name occurs in the text,
\* plus 3 for each name word longer than 3 characters that occurs in it, plus
\* 5 if its description occurs in it, plus 2 for each keyword the fixed table
\* associates with the category that occurs in it, and 1 when that sum is 0
\* and the name contains "general", "product" or "consumer"; a category is
\* returned only if its score is greater than 0, and the categories so scored
\* are returned up to the limit.
C29_TopLevelScore ==
    \A i \in ScoringCalls :
        /\ match_log[i].result.success
        /\ \A k \in 1..Len(Matched(i)) : Matched(i)[k].score > 0
        /\ \A k \in 1..Len(Matched(i)) : \A j \in 1..Len(TopLevel) :
               TopLevel[j].name = Matched(i)[k].category =>
                   /\ Matched(i)[k].score = ScoreStated(TopLevel[j], TextOf(i))
                   /\ j \in Scoring(TextOf(i))
        /\ Scoring(TextOf(i)) # {} =>
               /\ FromTree(i)
               /\ Len(Matched(i)) =
                      Min(Inputs(match_log[i].parameters)[4],
                          Cardinality(Scoring(TextOf(i))))

\* a call on the market tree with the text "tech gear and cars mobile phones
\* with android goods radio": Technology scores 5 for its description and 2 for the
\* keyword "tech", Auto 5 for its description, General Goods 3 for the word
\* "goods"; Home scores nothing and is not returned
C29_Witness ==
    /\ categories = TreeMarket
    /\ \E i \in ScoringCalls :
           /\ TextOf(i) = <<"t","e","c","h"," ","g","e","a","r"," ","a","n","d"," ","c","a","r","s"," ","m","o","b","i","l","e"," ","p","h","o","n","e","s"," ","w","i","t","h"," ","a","n","d","r","o","i","d"," ","g","o","o","d","s"," ","r","a","d","i","o">>
           /\ Len(Matched(i)) = 3
           /\ Matched(i)[1].category = <<"T","e","c","h","n","o","l","o","g","y">>
           /\ Matched(i)[1].score = 7
           /\ Matched(i)[2].category = <<"A","u","t","o">>
           /\ Matched(i)[2].score = 5
           /\ Matched(i)[3].category = <<"G","e","n","e","r","a","l"," ","G","o","o","d","s">>
           /\ Matched(i)[3].score = 3

\* 5 for the full lower-cased name, 3 for the description, 2 for each of the
\* subcategory's own values, each when it occurs in the text
SubcategoryPoints(node, text) ==
      (IF contains(text, lower(node["name"])) THEN 5 ELSE 0)
    + (IF "description" \in DOMAIN node
       THEN (IF contains(text, lower(node["description"])) THEN 3 ELSE 0)
       ELSE 0)
    + 2 * Cardinality({ k \in 1..Len(get(node, "values", <<>>)) :
                          contains(text, lower(node["values"][k])) })

\* the subcategories returned under one node of the tree, at every level below
\* it, each with the node of the tree it was scored from
RECURSIVE Returned(_, _)
Returned(matched, nodes) ==
    { << matched[k], nodes[Position(nodes, matched[k].name)] >> :
        k \in 1..Len(matched) }
    \cup UNION { Returned(get(matched[k], "subcategories", <<>>),
                          get(nodes[Position(nodes, matched[k].name)],
                              "subcategories", <<>>)) :
                   k \in 1..Len(matched) }

\* the subcategories a scoring call returned, at every level, under the
\* categories of the tree
ReturnedSubcategories(i) ==
    UNION { Returned(Matched(i)[pair[1]].subcategories,
                     get(TopLevel[pair[2]], "subcategories", <<>>)) :
              pair \in { pair \in (1..Len(Matched(i))) \X (1..Len(TopLevel)) :
                           TopLevel[pair[2]].name = Matched(i)[pair[1]].category } }

\* C30 as stated: every subcategory returned, at every nesting level, carries
\* the score of the top-level schedule (10 for the full name, 3 for each name
\* word longer than 3 characters, 5 for the description, 2 for each
\* associated keyword), and is returned only if that score is above 0.
C30_AsStated ==
    \A i \in ScoringCalls :
        \A pair \in ReturnedSubcategories(i) :
            /\ pair[1].score = PointsFor(pair[2], TextOf(i))
            /\ pair[1].score > 0

\* C30: every subcategory returned, at every nesting level, carries the score
\* of the subcategory schedule (5 for the full lower-cased name, 3 for the
\* description, 2 for each of its values that occurs in the text), and is
\* returned only if that score is above 0 or it has nested subcategories that
\* are returned.
C30_SubcategorySchedule ==
    \A i \in ScoringCalls :
        \A pair \in ReturnedSubcategories(i) :
            /\ pair[1].score = SubcategoryPoints(pair[2], TextOf(i))
            /\ \/ pair[1].score > 0
               \/ get(pair[1], "subcategories", <<>>) # <<>>

\* under Technology of the market tree a call returns Phones with score 10
\* (name, description and one value), and Audio with score 0 for the sake of
\* its nested subcategory Radio, which has score 5
C30_Witness ==
    /\ categories = TreeMarket
    /\ \E i \in ScoringCalls :
           /\ Matched(i) # <<>>
           /\ Matched(i)[1].category = <<"T","e","c","h","n","o","l","o","g","y">>
           /\ Len(Matched(i)[1].subcategories) = 2
           /\ Matched(i)[1].subcategories[1].name = <<"P","h","o","n","e","s">>
           /\ Matched(i)[1].subcategories[1].score = 10
           /\ Matched(i)[1].subcategories[2].name = <<"A","u","d","i","o">>
           /\ Matched(i)[1].subcategories[2].score = 0
           /\ Matched(i)[1].subcategories[2].subcategories[1].name = <<"R","a","d","i","o">>
           /\ Matched(i)[1].subcategories[2].subcategories[1].score = 5

\* scores that never rise along the list
NonIncreasing(matched) ==
    \A k \in 1..(Len(matched) - 1) : matched[k].score >= matched[k + 1].score

\* a subcategory list, and every list nested in it, has at most limit entries
\* with scores that never rise
RECURSIVE Truncated(_, _)
Truncated(matched, limit) ==
    /\ Len(matched) <= limit
    /\ NonIncreasing(matched)
    /\ \A k \in 1..Len(matched) :
           Truncated(get(matched[k], "subcategories", <<>>), limit)

\* the category the tool makes up when nothing scores and the tree has no
\* general category: it is no category of the tree
Synthesized(category) ==
    /\ category.category = <<"G","e","n","e","r","a","l"," ","C","o","n","s","u","m","e","r"," ","P","r","o","d","u","c","t","s">>
    /\ \A j \in 1..Len(TopLevel) : TopLevel[j].name # category.category

\* C31 as stated: for a product text that is not empty, match returns at most
\* max_categories categories in non-increasing score order, and every
\* subcategory list of the result, at every nesting level, has at most
\* max_subcategories entries in non-increasing score order.
C31_AsStated ==
    \A i \in ScoringCalls :
        /\ Len(Matched(i)) <= Inputs(match_log[i].parameters)[4]
        /\ NonIncreasing(Matched(i))
        /\ \A k \in 1..Len(Matched(i)) :
               Truncated(Matched(i)[k].subcategories,
                         Inputs(match_log[i].parameters)[5])

\* C31: as stated for the categories of the tree; the synthesized default
\* category carries its one synthesized subcategory whatever the limit.
C31_SortedAndTruncated ==
    \A i \in ScoringCalls :
        /\ Len(Matched(i)) <= Inputs(match_log[i].parameters)[4]
        /\ NonIncreasing(Matched(i))
        /\ \A k \in 1..Len(Matched(i)) :
               IF Synthesized(Matched(i)[k])
               THEN Len(Matched(i)[k].subcategories) = 1
               ELSE Truncated(Matched(i)[k].subcategories,
                              Inputs(match_log[i].parameters)[5])

\* a call on the market tree with limits 2 and 1 leaves out categories and
\* subcategories that scored: two categories of different scores come back,
\* the first with one subcategory where two had scored
C31_Witness ==
    /\ categories = TreeMarket
    /\ \E i \in ScoringCalls :
           /\ Inputs(match_log[i].parameters)[4] = 2
           /\ Inputs(match_log[i].parameters)[5] = 1
           /\ Cardinality(Scoring(TextOf(i))) > 2
           /\ Len(Matched(i)) = 2
           /\ Matched(i)[1].score > Matched(i)[2].score
           /\ Matched(i)[1].category = <<"T","e","c","h","n","o","l","o","g","y">>
           /\ Len(Matched(i)[1].subcategories) = 1

\* the categories of the tree whose name contains "general" or "consumer"
GeneralCategories ==
    { j \in 1..Len(TopLevel) :
        \/ contains(lower(TopLevel[j].name), <<"g","e","n","e","r","a","l">>)
        \/ contains(lower(TopLevel[j].name), <<"c","o","n","s","u","m","e","r">>) }

\* the calls that score the categories and find none above 0
NothingScored ==
    { i \in ScoringCalls : Scoring(TextOf(i)) = {} }

\* C32: for a product text that is not empty in which no top-level category
\* scores above 0, a match call with max_categories >= 1 returns exactly one
\* category: a category of the tree whose name contains "general" or
\* "consumer" if the tree has one, otherwise the synthesized category
\* "General Consumer Products" with exactly one synthesized subcategory; so a
\* match call with a text that is not empty and max_categories >= 1 never
\* returns an empty list.
C32_DefaultCategory ==
    /\ \A i \in NothingScored :
           Inputs(match_log[i].parameters)[4] >= 1 =>
               /\ match_log[i].result.success
               /\ Len(Matched(i)) = 1
               /\ Matched(i)[1].score = 1
               /\ IF GeneralCategories # {}
                  THEN \E j \in GeneralCategories :
                           TopLevel[j].name = Matched(i)[1].category
                  ELSE /\ Matched(i)[1].category = <<"G","e","n","e","r","a","l"," ","C","o","n","s","u","m","e","r"," ","P","r","o","d","u","c","t","s">>
                       /\ Len(Matched(i)[1].subcategories) = 1
                       /\ Matched(i)[1].subcategories[1].name = <<"O","n","l","i","n","e"," ","P","r","o","d","u","c","t","s">>
    /\ \A i \in ScoringCalls :
           Inputs(match_log[i].parameters)[4] >= 1 => Matched(i) # <<>>

\* a tree whose category has a general name always gives it a score, so the
\* calls in which nothing scores are on trees without one
C32_GeneralCategoryAlwaysScores ==
    NothingScored # {} => GeneralCategories = {}

\* the text "xyz" on the shop tree, in which nothing scores, returns the
\* synthesized category alone
C32_Witness ==
    /\ categories = TreeShop
    /\ \E i \in NothingScored :
           /\ Inputs(match_log[i].parameters)[4] >= 1
           /\ Len(Matched(i)) = 1
           /\ Matched(i)[1].category = <<"G","e","n","e","r","a","l"," ","C","o","n","s","u","m","e","r"," ","P","r","o","d","u","c","t","s">>
           /\ Len(Matched(i)[1].subcategories) = 1

\* a segment whose first criterion names a subcategory: the segment made for
\* one subcategory
IsSeekers(segment) ==
    "subcategory" \in DOMAIN segment.targeting_criteria[1]

\* a segment whose first criterion names a category alone and whose other
\* criteria all name a subcategory: the segment made for one category
IsPrimary(segment) ==
    /\ DOMAIN segment.targeting_criteria[1] = {"type", "category"}
    /\ \A c \in 2..Len(segment.targeting_criteria) :
           "subcategory" \in DOMAIN segment.targeting_criteria[c]

PrimaryAt(i) == { p \in 1..Len(Segments(i)) : IsPrimary(Segments(i)[p]) }

SeekersAt(i) == { p \in 1..Len(Segments(i)) : IsSeekers(Segments(i)[p]) }

\* the k-th of the primary segments of call i
Primary(i, k) ==
    Segments(i)[CHOOSE p \in PrimaryAt(i) :
                    Cardinality({ q \in PrimaryAt(i) : q <= p }) = k]

\* the criteria of a primary segment that are for subcategory sub, and those
\* of them that are for one of its values
CriteriaFor(segment, sub) ==
    { c \in 2..Len(segment.targeting_criteria) :
        segment.targeting_criteria[c].subcategory = sub.name }

\* the primary segment holds, after the criterion for the category itself, one
\* criterion for each direct subcategory and one more for each of its matched
\* values, and no other
HoldsCriteriaOf(segment, category) ==
    LET subs == get(category, "subcategories", <<>>)
        crit == segment.targeting_criteria
    IN  /\ crit[1] = [type |-> "interest", category |-> category.category]
        /\ \A c \in 2..Len(crit) :
               \E j \in 1..Len(subs) : crit[c].subcategory = subs[j].name
        /\ \A j \in 1..Len(subs) :
               /\ Cardinality({ c \in CriteriaFor(segment, subs[j]) :
                                  "value" \notin DOMAIN crit[c] }) = 1
               /\ Cardinality({ c \in CriteriaFor(segment, subs[j]) :
                                  "value" \in DOMAIN crit[c] })
                      = Len(get(subs[j], "matched_values", <<>>))
               /\ \A v \in 1..Len(get(subs[j], "matched_values", <<>>)) :
                      \E c \in CriteriaFor(segment, subs[j]) :
                          /\ "value" \in DOMAIN crit[c]
                          /\ crit[c].value = subs[j].matched_values[v]

\* the direct subcategories of the matched categories of call i with a score
\* above 3, each as <<category, subcategory>>
Notable(i) ==
    { pair \in (1..Len(Matched(i))) \X (1..5) :
        /\ pair[2] <= Len(Matched(i)[pair[1]].subcategories)
        /\ Matched(i)[pair[1]].subcategories[pair[2]].score > 3 }

IsSeekersOf(segment, category, sub) ==
    /\ segment.name = Text("{subcategory_name} Seekers", <<sub.name>>)
    /\ segment.targeting_criteria[1] =
           [type |-> "interest", category |-> category.category,
            subcategory |-> sub.name]

\* C33: the segments generated hold exactly one primary segment for each
\* matched category, named "<category> Enthusiasts" and holding, after the
\* criterion for the category, one targeting criterion for each subcategory
\* and one for each matched value of that subcategory; and a
\* "<subcategory> Seekers" segment for a direct subcategory if and only if the
\* score of that subcategory is greater than 3.
C33_PrimaryAndSeekersSegments ==
    \A i \in MatchModeCalls :
        /\ Cardinality(PrimaryAt(i)) = Len(Matched(i))
        /\ \A k \in 1..Len(Matched(i)) :
               /\ Primary(i, k).name =
                      Text("{category_name} Enthusiasts", <<Matched(i)[k].category>>)
               /\ HoldsCriteriaOf(Primary(i, k), Matched(i)[k])
        /\ Cardinality(SeekersAt(i)) = Cardinality(Notable(i))
        /\ \A pair \in Notable(i) :
               \E p \in SeekersAt(i) :
                   IsSeekersOf(Segments(i)[p], Matched(i)[pair[1]],
                               Matched(i)[pair[1]].subcategories[pair[2]])

\* a call returned Technology with Phones (score 10, one matched value) and
\* Audio (score 0): the primary segment of Technology holds four criteria and
\* the only Seekers segment of the category is for Phones
C33_Witness ==
    /\ categories = TreeMarket
    /\ \E i \in ScoringCalls :
           /\ Matched(i) # <<>>
           /\ Matched(i)[1].category = <<"T","e","c","h","n","o","l","o","g","y">>
           /\ Len(Matched(i)[1].subcategories) = 2
           /\ Matched(i)[1].subcategories[1].score = 10
           /\ Len(Matched(i)[1].subcategories[1].matched_values) = 1
           /\ Matched(i)[1].subcategories[2].score = 0
           /\ Len(Primary(i, 1).targeting_criteria) = 4
           /\ { pair \in Notable(i) : pair[1] = 1 } = { <<1, 1>> }
           /\ IsSeekersOf(Segments(i)[1], Matched(i)[1],
                          Matched(i)[1].subcategories[1])

CriterionTypes == {"interest", "demographic", "behavior"}

\* the segments of call i with a targeting criterion of a type that is not
\* one of the three
OddlyTyped(i) ==
    { p \in 1..Len(Segments(i)) :
        \E c \in 1..Len(Segments(i)[p].targeting_criteria) :
            Segments(i)[p].targeting_criteria[c].type \notin CriterionTypes }

\* C34, as stated: every targeting criterion of every audience segment
\* generated for a list of matched categories has one of the types interest,
\* demographic and behavior. It fails for a matched category with "Home",
\* "Furniture" or "Decor" in its name, whose additional segment carries a
\* criterion of type life_event.
C34_AsStated ==
    \A i \in MatchModeCalls : OddlyTyped(i) = {}

\* C34, what the code does: a criterion of another type is only ever the
\* life_event criterion of a Home Improvement Enthusiasts segment; and the
\* rule-based fallback of the orchestrator uses interest and behavior only
C34_OnlyHomeSegmentsOddlyTyped ==
    /\ \A i \in MatchModeCalls :
           \A p \in OddlyTyped(i) :
               /\ Len(Segments(i)[p].targeting_criteria) = 2
               /\ Segments(i)[p].targeting_criteria[2] =
                      [type |-> "life_event", category |-> "Home",
                       value |-> "Moving/Renovating"]
    /\ \A title \in {<<>>, <<"T">>} :
           LET fallback == default_segments(title, <<[category |-> <<"C">>]>>)
           IN  \A p \in 1..Len(fallback) :
                   \A c \in 1..Len(fallback[p].targeting_criteria) :
                       fallback[p].targeting_criteria[c].type \in CriterionTypes

\* what the handlers of the latest call did for the URL analysis
UrlAnalyses ==
    { i \in 1..Len(last_call.trail) : last_call.trail[i].handler = "url_analysis" }

\* C35: the stage is always one of the seven stage values and never
\* url_analysis, neither between calls nor when a handler has done its part or
\* a tool is called; the URL analysis is entered, and its tool called, while
\* the stage is still initial; when it succeeds it leaves the stage at
\* market_research, and at initial when it does not.
C35_NeverInUrlAnalysis ==
    /\ \E s \in 1..Len(Stages) : Stages[s] = current_workflow_stage
    /\ current_workflow_stage # "url_analysis"
    /\ \A i \in 1..Len(last_call.trail) :
           /\ last_call.trail[i].stage # "url_analysis"
           /\ last_call.trail[i].entry_stage # "url_analysis"
    /\ \A k \in 1..Len(last_call.tool_calls) :
           /\ last_call.tool_calls[k].stage # "url_analysis"
           /\ last_call.tool_calls[k].tool_name = "firecrawler"
                  => last_call.tool_calls[k].stage = "initial"
    /\ \A i \in UrlAnalyses :
           /\ last_call.trail[i].entry_stage = "initial"
           /\ last_call.trail[i].stage =
                  IF last_call.trail[i].outcome = "advanced"
                  THEN "market_research" ELSE "initial"

\* a message with a URL came in stage initial, the page was fetched and the
\* URL analysis left the stage at market_research
C35_Witness ==
    /\ last_call.op = "process_message"
    /\ last_call.before.stage = "initial"
    /\ \E i \in UrlAnalyses :
           /\ last_call.trail[i].outcome = "advanced"
           /\ last_call.trail[i].stage = "market_research"
    /\ \E k \in 1..Len(last_call.tool_calls) :
           /\ last_call.tool_calls[k].tool_name = "firecrawler"
           /\ last_call.tool_calls[k].result.success

\* the stages in which a message continues the analysis
ContinuingStages ==
    { "market_research", "category_mapping", "audience_segmentation",
      "marketing_strategy" }

\* the messages still needed, at most, before the stage is final_summary
Remaining(stage) == StageIndex("final_summary") - StageIndex(stage)

\* a message that is not cancel or stop is processed
NonCancelMessage ==
    /\ last_call'.op = "process_message"
    /\ last_call'.user_message \notin CancelMessages
    /\ calls' = calls + 1

\* C36: in each of the stages market_research, category_mapping,
\* audience_segmentation and marketing_strategy a message that is not cancel
\* moves the stage forward by at least one position of the fixed order, whether
\* the handler it runs succeeds or fails; the messages still needed to reach
\* final_summary (4 at most, from market_research) therefore decrease with
\* every such message, whatever the tools and the gateway do.
C36_EveryMessageAdvances ==
    [][ ( /\ current_workflow_stage \in ContinuingStages
          /\ NonCancelMessage )
        => ( /\ StageIndex(current_workflow_stage')
                    >= StageIndex(current_workflow_stage) + 1
             /\ Remaining(current_workflow_stage')
                    < Remaining(current_workflow_stage)
             /\ Remaining(current_workflow_stage) <= 4
             /\ Remaining(current_workflow_stage') >= 0 ) ]_vars

\* a message came in stage market_research, the handler it ran failed and the
\* stage is category_mapping all the same
C36_Witness ==
    /\ last_call.op = "process_message"
    /\ last_call.user_message \notin CancelMessages
    /\ last_call.before.stage = "market_research"
    /\ EndedInFailure(last_call)
    /\ current_workflow_stage = "category_mapping"

\* the data of every stage is there
AllStagesDone ==
    /\ truthy(product_data)
    /\ truthy(market_data)
    /\ truthy(category_data)
    /\ "audience_segments" \in DOMAIN final_results
    /\ "marketing_strategies" \in DOMAIN final_results

\* C37, as stated: whenever the stage is final_summary the product, market and
\* category data are non-empty and final_results holds both audience_segments
\* and marketing_strategies. It fails when a stage failed and the next message
\* moved the analysis on: the handlers of marketing_strategy and final_summary
\* run without the data of the stages before them.
C37_AsStated ==
    current_workflow_stage = "final_summary" => AllStagesDone

\* C37, what the code does: an analysis whose handlers all advanced within one
\* call, from the URL analysis to the final summary, ends with the data of
\* every stage
C37_WholeAnalysisHasAllData ==
    ( /\ current_workflow_stage = "final_summary"
      /\ last_call.op = "process_message"
      /\ HandlersRun(last_call) # <<>>
      /\ HandlersRun(last_call)[1].handler = "url_analysis"
      /\ \A i \in 1..Len(HandlersRun(last_call)) :
             HandlersRun(last_call)[i].outcome \in {"advanced", "completed"} )
    => AllStagesDone

\* the market data are those of a search for the product of these product data
SameCycle(products, market) ==
    ( /\ truthy(market)
      /\ "query" \in DOMAIN market )
    => ( /\ truthy(products)
         /\ "title" \in DOMAIN products
         /\ market.query = products.title )

\* the handlers of the latest call that went on with the data they found
WentOnWith ==
    { i \in 1..Len(HandlersRun(last_call)) :
        /\ HandlersRun(last_call)[i].handler = "category_mapping"
        /\ HandlersRun(last_call)[i].outcome = "advanced" }

\* C38, as stated: in every reachable state the market data held are those
\* computed from the product data held, and no category mapping goes on with
\* market data that were computed for another product. It fails after a cancel
\* followed by the analysis of another page whose search fails: the market
\* data of the cancelled analysis are still held, next to the new product data,
\* and the next message maps categories with them.
C38_AsStated ==
    /\ SameCycle(product_data, market_data)
    /\ ( /\ last_call.op = "process_message"
         /\ WentOnWith # {} )
       => ( \/ HandlersRun(last_call)[1].handler # "category_mapping"
            \/ SameCycle(last_call.before.product_data,
                         last_call.before.market_data) )

\* C38, the later stage: the category mapping of a fourth message never goes
\* on with market data of another product (violated in the longer
\* conversation, where it does)
C38_NoStaleMarketDataConsumed ==
    ( /\ last_call.op = "process_message"
      /\ WentOnWith # {}
      /\ HandlersRun(last_call)[1].handler = "category_mapping" )
    => SameCycle(last_call.before.product_data, last_call.before.market_data)

\* C38, what the code does: within the first message of a conversation the
\* market data stored are those of the product stored
C38_FirstAnalysisIsOneCycle ==
    calls <= 1 => SameCycle(product_data, market_data)

\* the text _get_ai_response returns when the completion request raises
Apology ==
    Text("I'm having trouble generating a response. Please try again. Error: {e}",
         <<"gateway raised">>)

\* two runs of process_message took the same course: the same handlers with
\* the same outcomes and stages, the same tool calls, the same stage and data
\* at the end, the same number of narrations
SameCourse(a, b) ==
    /\ b.stage = a.stage
    /\ b.trail = a.trail
    /\ b.tool_calls = a.tool_calls
    /\ b.product_data = a.product_data
    /\ b.market_data = a.market_data
    /\ b.category_data = a.category_data
    /\ b.final_results = a.final_results
    /\ Len(b.returned) = Len(a.returned)
    /\ narrations(b) = narrations(a)

\* the run in which the n-th narration request raises: nothing is raised to
\* the caller, and the n-th piece of the answer is the apology
ApologyNarrated(b, n) ==
    /\ ~b.exc
    /\ n <= narrations(b) =>
           /\ SelectSeq(b.gw_calls, LAMBDA r : r.purpose = "narration")[n].raised
           /\ b.returned[n] = Apology

\* the message processed with every service answering, and processed with the
\* n-th of its narration requests raising, for each n
Unstopped(user_message) ==
    \A a \in { process_message(context, user_message, NominalEnv, categories) } :
        \A n \in 1..narrations(a) :
            \A b \in { process_message(context, user_message,
                            [NominalEnv EXCEPT !.narration_failure = n],
                            categories) } :
                /\ ApologyNarrated(b, n)
                /\ SameCourse(a, b)

\* C39: a completion request that raises during a narration does not stop the
\* pipeline. In every reachable state, a message that starts or continues the
\* analysis, processed while the n-th narration request raises, takes the
\* same course as the message processed while none does: _get_ai_response returns its apology instead of raising,
\* the handler takes it for the narration, advances the stage and calls the
\* handler of the next stage, and every handler after it runs as well.
C39_NarrationFailureDoesNotStop ==
    Unstopped(M_analyze_url)

\* the request of a handler's narration raised, the handler advanced the stage
\* all the same and the handler of the next stage ran
C39_Witness ==
    /\ last_call.op = "process_message"
    /\ ~last_call.raised
    /\ \E k \in 1..Len(HandlersRun(last_call)) :
           /\ k < Len(HandlersRun(last_call))
           /\ Len(Narrations(last_call)) = Len(HandlersRun(last_call))
           /\ Narrations(last_call)[k].raised
           /\ HandlersRun(last_call)[k].outcome = "advanced"
           /\ HandlersRun(last_call)[k].handler = "market_research"
           /\ HandlersRun(last_call)[k + 1].handler = "category_mapping"
           /\ last_call.returned[k] = Apology

\* stage initial and the four data mappings empty: what reset leaves
AsReset ==
    /\ current_workflow_stage = "initial"
    /\ product_data = EmptyDict
    /\ market_data = EmptyDict
    /\ category_data = EmptyDict
    /\ final_results = EmptyDict

\* a reset has completed after the suspended call was submitted, and it is the
\* latest operation completed
ResetOvertook ==
    /\ pending # None
    /\ last_call.op = "reset_workflow"
    /\ calls > pending.submitted_at

\* C40, as stated: once reset has completed and no message is submitted after
\* it, the stage stays initial and the four data mappings stay empty, also
\* when a process_message call that started before the reset goes on after it.
\* It fails: the call that goes on stores its product data in the orchestrator
\* that was reset, assigns the stage and runs the stages that follow.
C40_AsStated ==
    [][ ( /\ ResetOvertook
          /\ pending' = None )
        => AsReset' ]_vars

\* C40, without a suspended call: what reset leaves stays until the next
\* request is served
C40_QuietAfterReset ==
    [][ ( /\ last_call.op = "reset_workflow"
          /\ pending = None
          /\ pending' = None
          /\ calls' = calls )
        => ( AsReset /\ AsReset' ) ]_vars

\* C40, the reset itself: when the reset request has been served the stage is
\* initial and the mappings are empty
C40_ResetClears ==
    last_call.op = "reset_workflow" => AsReset

====
